---------------------------- MODULE Spec2Model ----------------------------
(***************************************************************************)
(* Verification model of the refund-request checklist engine               *)
(* (src/Chequeo Devoluciones/lista.py).                                    *)
(*                                                                         *)
(* Dates are records [y, m, d] of the proleptic Gregorian calendar, as     *)
(* Python's datetime.date; a datetime at midnight is modelled by its date. *)
(* Python's None for an optional date is the record SinFecha.              *)
(***************************************************************************)
EXTENDS Integers, Sequences, FiniteSets, TLC

VARIABLES
    cal,        \* a call of fecha_limite_habiles: arguments f, n and result r
    now,        \* the current date, datetime.now()
    documentos, \* the Documents of the file under evaluation
    llamada,    \* the engine call made and its arguments
    retorno,    \* what evaluar_item returned
    filas,      \* the rows generar_checklist returned
    catalogos   \* the module-level CHECKLIST, DOC_KEYWORDS and COLOMBIA_FESTIVOS

vars == <<cal, now, documentos, llamada, retorno, filas, catalogos>>

---------------------------------------------------------------------------
(* datetime.date arithmetic                                                *)

SinFecha == [y |-> 0, m |-> 0, d |-> 0]

Fecha(y, m, d) == [y |-> y, m |-> m, d |-> d]

EsBisiesto(y) == (y % 4 = 0 /\ y % 100 # 0) \/ y % 400 = 0

DiasEnMes(y, m) ==
    IF m = 2 THEN (IF EsBisiesto(y) THEN 29 ELSE 28)
    ELSE IF m \in {4, 6, 9, 11} THEN 30 ELSE 31

\* datetime(y, m, d) raises ValueError unless this holds
FechaValida(y, m, d) ==
    /\ y \in 1..9999
    /\ m \in 1..12
    /\ d >= 1 /\ d <= DiasEnMes(y, m)

\* days of the year before the first day of month m
DiasAntesDeMes(y, m) ==
    <<0, 31, 59, 90, 120, 151, 181, 212, 243, 273, 304, 334>>[m]
      + (IF m > 2 /\ EsBisiesto(y) THEN 1 ELSE 0)

\* date.toordinal(): 0001-01-01 is day 1
toordinal(f) ==
    LET y1 == f.y - 1
    IN  365 * y1 + (y1 \div 4) - (y1 \div 100) + (y1 \div 400)
          + DiasAntesDeMes(f.y, f.m) + f.d

\* date.weekday(): Monday is 0, Sunday is 6
weekday(f) == (toordinal(f) + 6) % 7

\* fecha + timedelta(days=1)
SiguienteDia(f) ==
    IF f.d < DiasEnMes(f.y, f.m) THEN Fecha(f.y, f.m, f.d + 1)
    ELSE IF f.m < 12 THEN Fecha(f.y, f.m + 1, 1)
    ELSE Fecha(f.y + 1, 1, 1)

\* date comparison a <= b, a < b
FechaLE(a, b) == toordinal(a) <= toordinal(b)
FechaLT(a, b) == toordinal(a) < toordinal(b)

---------------------------------------------------------------------------
(* BusinessCalendar                                                        *)

COLOMBIA_FESTIVOS ==
    { Fecha(2025, 1, 1), Fecha(2025, 5, 1), Fecha(2025, 7, 20),
      Fecha(2025, 8, 7), Fecha(2025, 12, 8), Fecha(2025, 12, 25) }

\* mutant: the holiday set is not consulted
es_dia_habil_sin_festivos(fecha) == weekday(fecha) < 5

es_dia_habil(fecha) ==
    IF weekday(fecha) >= 5 THEN FALSE
    ELSE fecha \notin COLOMBIA_FESTIVOS

\* mutant: every calendar day is counted, non-business days included
RECURSIVE AvanzarNaturales(_, _, _)
AvanzarNaturales(fecha, contador, dias_habiles) ==
    IF contador < dias_habiles
    THEN AvanzarNaturales(SiguienteDia(fecha), contador + 1, dias_habiles)
    ELSE fecha

\* one turn of "while contador < dias_habiles": the day after, counted if it
\* is a business day; e holds fecha and contador
PasoHabil(e, dias_habiles) ==
    IF e.contador < dias_habiles
    THEN LET sig == SiguienteDia(e.fecha)
         IN  [fecha |-> sig,
              contador |-> IF es_dia_habil(sig) THEN e.contador + 1 ELSE e.contador]
    ELSE e

\* k turns of the loop, taken as two halves
RECURSIVE Repetir(_, _, _)
Repetir(e, k, dias_habiles) ==
    IF k <= 1 THEN PasoHabil(e, dias_habiles)
    ELSE Repetir(Repetir(e, k \div 2, dias_habiles), k - (k \div 2), dias_habiles)

\* the while loop, evaluated sixteen turns at a time
RECURSIVE AvanzarHabiles(_, _, _)
AvanzarHabiles(fecha, contador, dias_habiles) ==
    IF contador < dias_habiles
    THEN LET Seguir(e) == AvanzarHabiles(e.fecha, e.contador, dias_habiles)
         IN  Seguir(Repetir([fecha |-> fecha, contador |-> contador], 16, dias_habiles))
    ELSE fecha

fecha_limite_habiles(fecha_expedicion, dias_habiles) ==
    AvanzarHabiles(fecha_expedicion, 0, dias_habiles)

\* datetime.MAXYEAR: "fecha + timedelta(days=1)" raises OverflowError when
\* the day after 9999-12-31 is asked for, so the loop raises exactly when,
\* left to run, it would end beyond that year
MAXYEAR == 9999

FueraDeRango(fecha_limite) == fecha_limite.y > MAXYEAR

---------------------------------------------------------------------------
(* Text: a Python str is the sequence of its characters, each character a  *)
(* one-character string; an accented letter is written with a mark after   *)
(* it ("a'" is a-acute, "n~" is n-tilde).                                  *)

Digitos == {"0", "1", "2", "3", "4", "5", "6", "7", "8", "9"}

ValorDigito ==
    ("0" :> 0) @@ ("1" :> 1) @@ ("2" :> 2) @@ ("3" :> 3) @@ ("4" :> 4) @@
    ("5" :> 5) @@ ("6" :> 6) @@ ("7" :> 7) @@ ("8" :> 8) @@ ("9" :> 9)

MinusculaDe ==
    ("A" :> "a") @@ ("B" :> "b") @@ ("C" :> "c") @@ ("D" :> "d") @@
    ("E" :> "e") @@ ("F" :> "f") @@ ("G" :> "g") @@ ("H" :> "h") @@
    ("I" :> "i") @@ ("J" :> "j") @@ ("K" :> "k") @@ ("L" :> "l") @@
    ("M" :> "m") @@ ("N" :> "n") @@ ("O" :> "o") @@ ("P" :> "p") @@
    ("Q" :> "q") @@ ("R" :> "r") @@ ("S" :> "s") @@ ("T" :> "t") @@
    ("U" :> "u") @@ ("V" :> "v") @@ ("W" :> "w") @@ ("X" :> "x") @@
    ("Y" :> "y") @@ ("Z" :> "z") @@ ("A'" :> "a'") @@ ("E'" :> "e'") @@
    ("I'" :> "i'") @@ ("O'" :> "o'") @@ ("U'" :> "u'") @@ ("N~" :> "n~")

Mayusculas == DOMAIN MinusculaDe
Minusculas == { MinusculaDe[c] : c \in Mayusculas }

\* \w of Python's re on str: letters, digits and the underscore
EsPalabra(c) == c \in Mayusculas \cup Minusculas \cup Digitos \cup {"_"}

\* \s
Espacios == {" ", "\n", "\t"}

\* str.lower()
Minuscula(c) == IF c \in Mayusculas THEN MinusculaDe[c] ELSE c

lower(t) == [i \in 1..Len(t) |-> Minuscula(t[i])]

\* str.strip()
RECURSIVE PrimerNoEspacio(_, _)
PrimerNoEspacio(t, i) ==
    IF i > Len(t) \/ t[i] \notin Espacios THEN i ELSE PrimerNoEspacio(t, i + 1)

RECURSIVE UltimoNoEspacio(_, _)
UltimoNoEspacio(t, j) ==
    IF j < 1 \/ t[j] \notin Espacios THEN j ELSE UltimoNoEspacio(t, j - 1)

strip(t) == SubSeq(t, PrimerNoEspacio(t, 1), UltimoNoEspacio(t, Len(t)))

\* kw in texto
Contiene(texto, kw) ==
    \E i \in 1..(Len(texto) - Len(kw) + 1) :
        \A j \in 1..Len(kw) : texto[i + j - 1] = kw[j]

\* index after the longest run of characters of S that starts at i
RECURSIVE FinCorrida(_, _, _)
FinCorrida(t, i, S) ==
    IF i > Len(t) \/ t[i] \notin S THEN i ELSE FinCorrida(t, i + 1, S)

\* int() of the digits t[i..j-1]
RECURSIVE Numero(_, _, _)
Numero(t, i, j) ==
    IF j <= i THEN 0 ELSE 10 * Numero(t, i, j - 1) + ValorDigito[t[j - 1]]

\* \b between t[p-1] and t[p]
LimitePalabra(t, p) ==
    (p > 1 /\ EsPalabra(t[p - 1])) # (p <= Len(t) /\ EsPalabra(t[p]))

\* limpiar_texto_fecha: the four substitutions, in the order of the code
ReemplazarBarra(t) == [i \in 1..Len(t) |-> IF t[i] = "|" THEN "/" ELSE t[i]]

ReemplazarEleAislada(t) ==
    [i \in 1..Len(t) |->
        IF t[i] = "l" /\ LimitePalabra(t, i) /\ LimitePalabra(t, i + 1)
        THEN "1" ELSE t[i]]

ReemplazarOEntreDigitos(t, letra) ==
    [i \in 1..Len(t) |->
        IF /\ t[i] = letra
           /\ i > 1 /\ t[i - 1] \in Digitos
           /\ i < Len(t) /\ t[i + 1] \in Digitos
        THEN "0" ELSE t[i]]

QuitarCaracteres(t, S) ==
    LET Queda(c) == c \notin S
    IN  SelectSeq(t, Queda)

limpiar_texto_fecha(texto) ==
    IF texto = <<>> THEN <<>>
    ELSE QuitarCaracteres(
            ReemplazarOEntreDigitos(
                ReemplazarOEntreDigitos(
                    ReemplazarEleAislada(ReemplazarBarra(texto)), "O"), "o"),
            {"[", "]", "{", "}", "(", ")"})

---------------------------------------------------------------------------
(* DateExtractor.  A date-like token is kept as the record of its three    *)
(* digit groups: n the values, l the number of digits of each group.       *)

\* [/\-\.\s\\] and [/\-\.]
SepFecha == {"/", "-", ".", "\\"} \cup Espacios
SepSimple == {"/", "-", "."}

NoCoincide ==
    [ok |-> FALSE, alt |-> "", n |-> <<0, 0, 0>>, l |-> <<0, 0, 0>>, fin |-> 0,
     mes |-> <<>>]

\* the ends of: digit run, separator(s), digit run, separator(s), digit run
\* starting at p; with unSolo a separator is exactly one character
CorridasTriple(t, p, seps, unSolo) ==
    LET Sep(i) == IF unSolo
                  THEN (IF i <= Len(t) /\ t[i] \in seps THEN i + 1 ELSE i)
                  ELSE FinCorrida(t, i, seps)
        e1 == FinCorrida(t, p, Digitos)
        s1 == Sep(e1)
        e2 == FinCorrida(t, s1, Digitos)
        s2 == Sep(e2)
        e3 == FinCorrida(t, s2, Digitos)
    IN  [e1 |-> e1, s1 |-> s1, e2 |-> e2, s2 |-> s2, e3 |-> e3]

\* the three digit groups of a match at p whose runs end at c
GruposDe(t, p, c, alt) ==
    [ok |-> TRUE, alt |-> alt,
     n |-> <<Numero(t, p, c.e1), Numero(t, c.s1, c.e2), Numero(t, c.s2, c.e3)>>,
     l |-> <<c.e1 - p, c.e2 - c.s1, c.e3 - c.s2>>,
     fin |-> c.e3, mes |-> <<>>]

\* \b digits, separators, digits, separators, digits \b with the runs c
FormaDeFecha(t, p, c) ==
    /\ t[p] \in Digitos
    /\ LimitePalabra(t, p)
    /\ c.s1 > c.e1 /\ c.s2 > c.e2
    /\ LimitePalabra(t, c.e3)

\* RE_DATE_NUMERIC on the runs c: the first alternative (groups 1-3) is
\* tried before the second (groups 4-6)
NumericaCon(t, p, c) ==
    IF ~FormaDeFecha(t, p, c) THEN NoCoincide
    ELSE IF c.e1 - p \in 1..2 /\ c.e2 - c.s1 \in 1..2 /\ c.e3 - c.s2 \in 2..4
    THEN GruposDe(t, p, c, "primera")
    ELSE IF c.e1 - p \in 2..4 /\ c.e2 - c.s1 \in 1..2 /\ c.e3 - c.s2 \in 1..2
    THEN GruposDe(t, p, c, "segunda")
    ELSE NoCoincide

\* RE_DATE_NUMERIC matched at p
CoincideNumerica(t, p) == NumericaCon(t, p, CorridasTriple(t, p, SepFecha, FALSE))

\* a two-digit year: + 2000 below 50, + 1900 otherwise
AjustarAnio(a) == IF a < 100 THEN (IF a < 50 THEN a + 2000 ELSE a + 1900) ELSE a

\* mutant: the month-first reading is tried instead of the day-first one
FechaDeNumericaMesPrimero(m) ==
    LET num1 == m.n[1]
        num2 == m.n[2]
        num3 == AjustarAnio(m.n[3])
    IN  IF num2 \in 1..31 /\ num1 \in 1..12 /\ num3 \in 1900..2100
        THEN (IF FechaValida(num3, num1, num2) THEN {Fecha(num3, num1, num2)} ELSE {})
        ELSE {}

\* the body of the numeric pass for one match: the set of dates it appends
FechaDeNumerica(m) ==
    LET num1 == m.n[1]
        num2 == m.n[2]
        num3 == AjustarAnio(m.n[3])
    IN  IF num1 \in 1..31 /\ num2 \in 1..12 /\ num3 \in 1900..2100
        THEN (IF FechaValida(num3, num2, num1) THEN {Fecha(num3, num2, num1)} ELSE {})
        ELSE IF num1 \in 1900..2100 /\ num2 \in 1..12 /\ num3 \in 1..31
        THEN (IF FechaValida(num1, num2, num3) THEN {Fecha(num1, num2, num3)} ELSE {})
        ELSE {}

\* dateutil.parser.parse(s, dayfirst=True) on a string of three digit groups:
\* a group of more than two digits is the year; otherwise the order comes
\* from the values (resolve_ymd), and a year below 100 is moved to within 50
\* years of the current year.  ok is FALSE where parse raises.
parse_date(tok, hoy) ==
    LET n == tok.n
        largos == { i \in 1..3 : tok.l[i] > 2 }
        anioPrimero == n[1] > 31 \/ 1 \in largos
        ymd == IF anioPrimero
               THEN (IF n[3] <= 12 THEN [y |-> n[1], d |-> n[2], m |-> n[3]]
                                   ELSE [y |-> n[1], m |-> n[2], d |-> n[3]])
               ELSE IF n[1] > 12 \/ n[2] <= 12
                    THEN [d |-> n[1], m |-> n[2], y |-> n[3]]
                    ELSE [m |-> n[1], d |-> n[2], y |-> n[3]]
        siglo == IF largos = {} /\ ymd.y < 100
                 THEN LET a == ymd.y + 100 * (hoy.y \div 100)
                      IN  IF a >= hoy.y + 50 THEN a - 100
                          ELSE IF a < hoy.y - 50 THEN a + 100 ELSE a
                 ELSE ymd.y
    IN  IF Cardinality(largos) > 1 \/ ~FechaValida(siglo, ymd.m, ymd.d)
        THEN [ok |-> FALSE, f |-> SinFecha]
        ELSE [ok |-> TRUE, f |-> Fecha(siglo, ymd.m, ymd.d)]

\* parsear_fecha_flexible on a string of three digit groups: dateutil first,
\* then the explicit day/month/year split
parsear_fecha_flexible(tok, hoy) ==
    LET r == parse_date(tok, hoy)
        dia == tok.n[1]
        mes == tok.n[2]
        anio == AjustarAnio(tok.n[3])
    IN  IF r.ok /\ r.f.y \in 1900..2100 THEN r.f
        ELSE IF /\ dia \in 1..31 /\ mes \in 1..12 /\ anio \in 1900..2100
                /\ FechaValida(anio, mes, dia)
             THEN Fecha(anio, mes, dia)
             ELSE SinFecha

\* the loose shape of the fallback pass, \b\d{1,2}[/\-\.]\d{1,2}[/\-\.]\d{2,4}\b
GenericaCon(t, p, c) ==
    IF /\ FormaDeFecha(t, p, c)
       /\ c.e1 - p \in 1..2 /\ c.e2 - c.s1 \in 1..2 /\ c.e3 - c.s2 \in 2..4
    THEN GruposDe(t, p, c, "generica")
    ELSE NoCoincide

CoincideGenerica(t, p) == GenericaCon(t, p, CorridasTriple(t, p, SepSimple, TRUE))

\* the issuance words of RE_DATE_BANCARIA_CONTEXTO
PalabrasContexto ==
    { <<"f","e","c","h","a">>,
      <<"e","x","p","e","d","i","c","i","o","n">>,
      <<"e","x","p","e","d","i","c","i","o'","n">>,
      <<"e","x","p","i","d","e">>,
      <<"e","m","i","t","i","d","a">>, <<"e","m","i","t","i","d","o">>,
      <<"g","e","n","e","r","a","d","a">>, <<"g","e","n","e","r","a","d","o">>,
      <<"c","r","e","a","d","a">>, <<"c","r","e","a","d","o">>,
      <<"r","e","a","l","i","z","a","d","a">>, <<"r","e","a","l","i","z","a","d","o">>,
      <<"e","l","a","b","o","r","a">>, <<"e","l","a","b","o","r","o'">>,
      <<"e","l","a","b","o","r","a","c","i","o","n">>,
      <<"e","l","a","b","o","r","a","c","i","o'","n">> }

InicialesContexto == { w[1] : w \in PalabrasContexto }

\* RE_DATE_BANCARIA_CONTEXTO matched at p, numeric alternative of its group:
\* an issuance word (any case), [\s:\-.,]*, then digits, separators, digits,
\* separators and two to four digits, with no word boundary on either side
\* the date after an issuance word, from q on, with the runs c; the year
\* takes at most four digits of its run
ContextoCon(t, q, c, l3) ==
    IF /\ c.e1 - q \in 1..2 /\ c.s1 > c.e1
       /\ c.e2 - c.s1 \in 1..2 /\ c.s2 > c.e2
       /\ l3 >= 2
    THEN [ok |-> TRUE, alt |-> "contexto",
          n |-> <<Numero(t, q, c.e1), Numero(t, c.s1, c.e2), Numero(t, c.s2, c.s2 + l3)>>,
          l |-> <<c.e1 - q, c.e2 - c.s1, l3>>, fin |-> c.s2 + l3, mes |-> <<>>]
    ELSE NoCoincide

ContextoDesde(t, q, c) ==
    ContextoCon(t, q, c, IF c.e3 - c.s2 > 4 THEN 4 ELSE c.e3 - c.s2)


\* [A-Za-z] and the accented letters of the named-month patterns
Letras == Mayusculas \cup Minusculas

\* MESES_ESPANOL: key and value, in the order of the dict
MESES_ESPANOL ==
    << <<<<"e", "n", "e", "r", "o">>, 1>>,
       <<<<"e", "n", "e">>, 1>>,
       <<<<"e", "n", "e", "r">>, 1>>,
       <<<<"f", "e", "b", "r", "e", "r", "o">>, 2>>,
       <<<<"f", "e", "b">>, 2>>,
       <<<<"f", "e", "b", "r">>, 2>>,
       <<<<"m", "a", "r", "z", "o">>, 3>>,
       <<<<"m", "a", "r">>, 3>>,
       <<<<"m", "z", "o">>, 3>>,
       <<<<"a", "b", "r", "i", "l">>, 4>>,
       <<<<"a", "b", "r">>, 4>>,
       <<<<"a", "b", "r", "l">>, 4>>,
       <<<<"m", "a", "y", "o">>, 5>>,
       <<<<"m", "a", "y">>, 5>>,
       <<<<"j", "u", "n", "i", "o">>, 6>>,
       <<<<"j", "u", "n">>, 6>>,
       <<<<"j", "u", "l", "i", "o">>, 7>>,
       <<<<"j", "u", "l">>, 7>>,
       <<<<"a", "g", "o", "s", "t", "o">>, 8>>,
       <<<<"a", "g", "o">>, 8>>,
       <<<<"a", "g", "o", "s">>, 8>>,
       <<<<"a", "g", "t", "o">>, 8>>,
       <<<<"s", "e", "p", "t", "i", "e", "m", "b", "r", "e">>, 9>>,
       <<<<"s", "e", "p">>, 9>>,
       <<<<"s", "e", "p", "t">>, 9>>,
       <<<<"s", "e", "t", "i", "e", "m", "b", "r", "e">>, 9>>,
       <<<<"s", "e", "t">>, 9>>,
       <<<<"o", "c", "t", "u", "b", "r", "e">>, 10>>,
       <<<<"o", "c", "t">>, 10>>,
       <<<<"n", "o", "v", "i", "e", "m", "b", "r", "e">>, 11>>,
       <<<<"n", "o", "v">>, 11>>,
       <<<<"d", "i", "c", "i", "e", "m", "b", "r", "e">>, 12>>,
       <<<<"d", "i", "c">>, 12>>,
       <<<<"d", "b", "r", "e">>, 12>> >>

\* s.startswith(prefijo)
startswith(s, prefijo) ==
    Len(prefijo) <= Len(s) /\ \A j \in 1..Len(prefijo) : s[j] = prefijo[j]

\* s[:3]
Primeros3(s) == SubSeq(s, 1, IF Len(s) < 3 THEN Len(s) ELSE 3)

\* the loop over MESES_ESPANOL: the value of the first key such that
\* mes_nombre starts with key[:3] or the key starts with mes_nombre[:3]; 0
\* when the loop ends without one
MesDeNombre(mes_nombre) ==
    LET claves == { i \in 1..Len(MESES_ESPANOL) :
                      \/ startswith(mes_nombre, Primeros3(MESES_ESPANOL[i][1]))
                      \/ startswith(MESES_ESPANOL[i][1], Primeros3(mes_nombre)) }
        Primera(S) == CHOOSE i \in S : \A k \in S : i <= k
    IN  IF claves = {} THEN 0 ELSE MESES_ESPANOL[Primera(claves)][2]

\* "de" and white space at i, "del" and white space at i, in either case
HayDe(t, i) ==
    /\ i + 2 <= Len(t)
    /\ Minuscula(t[i]) = "d" /\ Minuscula(t[i + 1]) = "e"
    /\ t[i + 2] \in Espacios

HayDel(t, i) ==
    /\ i + 3 <= Len(t)
    /\ Minuscula(t[i]) = "d" /\ Minuscula(t[i + 1]) = "e" /\ Minuscula(t[i + 2]) = "l"
    /\ t[i + 3] \in Espacios

\* (?:de\s+|del?\s+)? at i: the index after it
TrasDeDel(t, i) ==
    IF HayDe(t, i) THEN FinCorrida(t, i + 2, Espacios)
    ELSE IF HayDel(t, i) THEN FinCorrida(t, i + 3, Espacios)
    ELSE i

\* the groups of a named-month match: day t[p..e1-1], word t[s..r-1] (lower
\* case), year t[k..fin-1]
GrupoNombre(t, p, e1, s, r, k, fin) ==
    [ok |-> TRUE, alt |-> "nombre",
     n |-> <<Numero(t, p, e1), 0, Numero(t, k, fin)>>,
     l |-> <<e1 - p, 0, fin - k>>,
     fin |-> fin, mes |-> lower(SubSeq(t, s, r - 1))]

\* the word t[s..r-1], white space up to j, an optional "de" or "del" up to
\* k, the digits up to e3.  estricto is RE_DATE_TEXTO: \s* after the word,
\* two to four digits and \b; otherwise it is the named alternative of
\* RE_DATE_BANCARIA_CONTEXTO: \s+ after the word, two to four digits of the
\* run and no \b
NombreCon(t, p, e1, s, r, j, k, e3, estricto) ==
    IF /\ r > s
       /\ (estricto \/ j > r)
       /\ IF estricto THEN e3 - k \in 2..4 /\ LimitePalabra(t, e3) ELSE e3 - k >= 2
    THEN GrupoNombre(t, p, e1, s, r, k, IF estricto \/ e3 - k <= 4 THEN e3 ELSE k + 4)
    ELSE NoCoincide

NombreEnK(t, p, e1, s, r, j, k, estricto) ==
    NombreCon(t, p, e1, s, r, j, k, FinCorrida(t, k, Digitos), estricto)

NombreEnJ(t, p, e1, s, r, j, estricto) ==
    NombreEnK(t, p, e1, s, r, j, TrasDeDel(t, j), estricto)

NombreEnR(t, p, e1, s, r, estricto) ==
    NombreEnJ(t, p, e1, s, r, FinCorrida(t, r, Espacios), estricto)

\* the word starts at s
NombreDesde(t, p, e1, s, estricto) ==
    NombreEnR(t, p, e1, s, FinCorrida(t, s, Letras), estricto)

\* the first of two attempts that succeeds
Preferir(m1, m2) == IF m1.ok THEN m1 ELSE m2

\* one or two digits up to e1, white space up to a (at least one unless
\* estricto), then the word: after "de" and white space if that gives a
\* match, at a otherwise
NombreTras(t, p, e1, a, estricto) ==
    IF e1 - p \notin 1..2 \/ (~estricto /\ a = e1) THEN NoCoincide
    ELSE Preferir(IF HayDe(t, a)
                  THEN NombreDesde(t, p, e1, FinCorrida(t, a + 2, Espacios), estricto)
                  ELSE NoCoincide,
                  NombreDesde(t, p, e1, a, estricto))

NombreEnE1(t, p, e1, estricto) ==
    NombreTras(t, p, e1, FinCorrida(t, e1, Espacios), estricto)

\* the date with a month name from p on
NombreEn(t, p, estricto) == NombreEnE1(t, p, FinCorrida(t, p, Digitos), estricto)

\* RE_DATE_TEXTO matched at p
CoincideTexto(t, p) ==
    IF t[p] \in Digitos /\ LimitePalabra(t, p) THEN NombreEn(t, p, TRUE) ELSE NoCoincide

\* the body of the named-month pass for one match: the set of dates it
\* appends
FechaDeTexto(m) ==
    LET dia == m.n[1]
        anio == AjustarAnio(m.n[3])
        mes == MesDeNombre(m.mes)
    IN  IF mes # 0 /\ dia \in 1..31 /\ anio \in 1900..2100 /\ FechaValida(anio, mes, dia)
        THEN {Fecha(anio, mes, dia)}
        ELSE {}

\* parsear_fecha_flexible on a day, a word and a year.  dateutil raises on a
\* word that is none of its own (English) names, as the words of the texts
\* below are; re.split gives parts that int() rejects; what is left is the
\* branch of RE_DATE_TEXTO, which returns datetime(anio, value, dia) for the
\* first key found and None when datetime raises or no key is found
parsear_fecha_flexible_nombre(m) ==
    LET dia == m.n[1]
        anio == AjustarAnio(m.n[3])
        mes == MesDeNombre(m.mes)
    IN  IF mes # 0 /\ FechaValida(anio, mes, dia) THEN Fecha(anio, mes, dia) ELSE SinFecha

\* what follows an issuance word ending before q0: [\s:\-.,]* and the date,
\* the numeric alternative of the group before the named one
IntentoContexto(t, q) ==
    Preferir(ContextoDesde(t, q, CorridasTriple(t, q, SepFecha, FALSE)),
             NombreEn(t, q, FALSE))

\* the first of the attempts that succeeds
PrimerIntento(t, buenos) ==
    IF buenos = {} THEN NoCoincide
    ELSE IntentoContexto(t, FinCorrida(t, CHOOSE q0 \in buenos : TRUE,
                                       Espacios \cup {":", "-", ".", ","}))

CoincideContexto(t, p) ==
    IF Minuscula(t[p]) \notin InicialesContexto THEN NoCoincide
    ELSE
    LET finales == { p + Len(w) : w \in
                       { w \in PalabrasContexto :
                           /\ p + Len(w) - 1 <= Len(t)
                           /\ \A j \in 1..Len(w) : Minuscula(t[p + j - 1]) = w[j] } }
    IN  PrimerIntento(t, { q0 \in finales :
                             IntentoContexto(t, FinCorrida(t, q0, Espacios \cup {":", "-", ".", ","})).ok })

\* min() of a non-empty set of positions
Menor(S) == CHOOSE q \in S : \A r \in S : q <= r

\* the positions at which a number starts: a digit after a word boundary
IniciosDeNumero(t) == { q \in 1..Len(t) : t[q] \in Digitos /\ LimitePalabra(t, q) }

\* the positions at which an issuance word stands, in either case
IniciosDeContexto(t) ==
    { q \in 1..Len(t) :
        /\ Minuscula(t[q]) \in InicialesContexto
        /\ \E w \in PalabrasContexto :
               /\ q + Len(w) - 1 <= Len(t)
               /\ \A j \in 1..Len(w) : Minuscula(t[q + j - 1]) = w[j] }

\* RE_DATE_NUMERIC.finditer: the matches among the positions inicios from p on, left to
\* right and without overlap
RECURSIVE BuscarNumericasEn(_, _, _)
BuscarNumericasEn(t, p, inicios) ==
    LET Seguir(q, m) == IF m.ok THEN <<m>> \o BuscarNumericasEn(t, m.fin, inicios)
                        ELSE BuscarNumericasEn(t, q + 1, inicios)
        EnPosicion(q) == Seguir(q, CoincideNumerica(t, q))
        Desde(resto) == IF resto = {} THEN <<>> ELSE EnPosicion(Menor(resto))
    IN  Desde({ q \in inicios : q >= p })

\* re.findall of the loose shape: the matches among the positions inicios from p on, left to
\* right and without overlap
RECURSIVE BuscarGenericasEn(_, _, _)
BuscarGenericasEn(t, p, inicios) ==
    LET Seguir(q, m) == IF m.ok THEN <<m>> \o BuscarGenericasEn(t, m.fin, inicios)
                        ELSE BuscarGenericasEn(t, q + 1, inicios)
        EnPosicion(q) == Seguir(q, CoincideGenerica(t, q))
        Desde(resto) == IF resto = {} THEN <<>> ELSE EnPosicion(Menor(resto))
    IN  Desde({ q \in inicios : q >= p })

\* RE_DATE_BANCARIA_CONTEXTO.finditer: the matches among the positions inicios from p on, left to
\* right and without overlap
RECURSIVE BuscarContextoEn(_, _, _)
BuscarContextoEn(t, p, inicios) ==
    LET Seguir(q, m) == IF m.ok THEN <<m>> \o BuscarContextoEn(t, m.fin, inicios)
                        ELSE BuscarContextoEn(t, q + 1, inicios)
        EnPosicion(q) == Seguir(q, CoincideContexto(t, q))
        Desde(resto) == IF resto = {} THEN <<>> ELSE EnPosicion(Menor(resto))
    IN  Desde({ q \in inicios : q >= p })

\* RE_DATE_TEXTO.finditer: the matches among the positions inicios from p on, left to
\* right and without overlap
RECURSIVE BuscarTextoEn(_, _, _)
BuscarTextoEn(t, p, inicios) ==
    LET Seguir(q, m) == IF m.ok THEN <<m>> \o BuscarTextoEn(t, m.fin, inicios)
                        ELSE BuscarTextoEn(t, q + 1, inicios)
        EnPosicion(q) == Seguir(q, CoincideTexto(t, q))
        Desde(resto) == IF resto = {} THEN <<>> ELSE EnPosicion(Menor(resto))
    IN  Desde({ q \in inicios : q >= p })

BuscarTexto(t, p) == BuscarTextoEn(t, p, IniciosDeNumero(t))

BuscarNumericas(t, p) == BuscarNumericasEn(t, p, IniciosDeNumero(t))

BuscarGenericas(t, p) == BuscarGenericasEn(t, p, IniciosDeNumero(t))

BuscarContexto(t, p) == BuscarContextoEn(t, p, IniciosDeContexto(t))

Rango(s) == { s[i] : i \in DOMAIN s }

\* the numeric pass: the dates it appends for the matches of RE_DATE_NUMERIC
FechasNumericas(texto_limpio) ==
    UNION { FechaDeNumerica(m) : m \in Rango(BuscarNumericas(texto_limpio, 1)) }

\* the contextual pass: the dates after an issuance word that
\* parsear_fecha_flexible can read
FechasDeContexto(texto_limpio, hoy) ==
    { IF m.alt = "nombre" THEN parsear_fecha_flexible_nombre(m)
      ELSE parsear_fecha_flexible(m, hoy) :
        m \in Rango(BuscarContexto(texto_limpio, 1)) } \ {SinFecha}

\* the named-month pass: the dates it appends for the matches of
\* RE_DATE_TEXTO
FechasDeTexto(texto_limpio) ==
    UNION { FechaDeTexto(m) : m \in Rango(BuscarTexto(texto_limpio, 1)) }

\* the generic fallback: the loose shapes that dateutil reads as a date of
\* 1900..2100
FechasGenericas(texto_limpio, hoy) ==
    { r.f : r \in { x \in { parse_date(m, hoy) : m \in Rango(BuscarGenericas(texto_limpio, 1)) } :
                      x.ok /\ x.f.y \in 1900..2100 } }

\* the passes over the cleaned text, in the order of the code
TodasLasFechas(texto_limpio, contexto_bancario, hoy) ==
    (IF contexto_bancario THEN FechasDeContexto(texto_limpio, hoy) ELSE {})
        \cup FechasDeTexto(texto_limpio)
        \cup FechasNumericas(texto_limpio)
        \cup FechasGenericas(texto_limpio, hoy)

\* extraer_todas_fechas_texto: the set of the dates found (the code returns it
\* as a sorted list without duplicates)
extraer_todas_fechas_texto(texto, contexto_bancario, hoy) ==
    TodasLasFechas(limpiar_texto_fecha(texto), contexto_bancario, hoy)

\* mutant: the earliest candidate is preferred
MinFecha(S) == CHOOSE f \in S : \A g \in S : FechaLE(f, g)

\* max() of a non-empty set of dates
MaxFecha(S) == CHOOSE f \in S : \A g \in S : FechaLE(g, f)

\* extraer_fecha_mejorada: SinFecha is the None it returns for no candidate
extraer_fecha_mejorada(texto, contexto_bancario, hoy) ==
    LET MasReciente(fechas, fechas_validas) ==
            MaxFecha(IF fechas_validas = {} THEN fechas ELSE fechas_validas)
        Elegir(fechas) ==
            IF fechas = {} THEN SinFecha
            ELSE IF Cardinality(fechas) > 1
                 THEN MasReciente(fechas,
                                  { f \in fechas :
                                      /\ toordinal(hoy) - 365 * 5 <= toordinal(f)
                                      /\ toordinal(f) <= toordinal(hoy) + 365 })
                 ELSE CHOOSE f \in fechas : TRUE
    IN  Elegir(extraer_todas_fechas_texto(texto, contexto_bancario, hoy))

---------------------------------------------------------------------------
(* Values that the code tells apart by their run-time type: a date or      *)
(* datetime object, a str holding a date, None.                            *)

SinCadena == [n |-> <<>>, l |-> <<>>]

None == [clase |-> "None", f |-> SinFecha, tok |-> SinCadena]
ObjDate(f) == [clase |-> "date", f |-> f, tok |-> SinCadena]
ObjDatetime(f) == [clase |-> "datetime", f |-> f, tok |-> SinCadena]
ObjStr(tok) == [clase |-> "str", f |-> SinFecha, tok |-> tok]

\* date.isoformat(): the str "YYYY-MM-DD"
isoformat(f) == ObjStr([n |-> <<f.y, f.m, f.d>>, l |-> <<4, 2, 2>>])

\* mutant: a stored string is handed back as no date at all
obtener_fecha_date_sin_cadenas(fecha_obj, hoy) ==
    IF fecha_obj.clase \in {"date", "datetime"} THEN fecha_obj.f ELSE SinFecha

\* obtener_fecha_date: SinFecha is the None it returns
obtener_fecha_date(fecha_obj, hoy) ==
    IF fecha_obj.clase = "None" THEN SinFecha
    ELSE IF fecha_obj.clase = "date" THEN fecha_obj.f
    ELSE IF fecha_obj.clase = "datetime" THEN fecha_obj.f
    ELSE IF fecha_obj.clase = "str"
         THEN LET r == parse_date(fecha_obj.tok, hoy)
              IN  IF r.ok THEN r.f ELSE SinFecha
    ELSE SinFecha

---------------------------------------------------------------------------
(* The checklist catalogs.  vigencia_dias of None is written 0: the code   *)
(* only asks whether it is set ("if vig").                                 *)

CHECKLIST_misional ==
    <<
      \* keywords: carta; solicitud; motivo de la solicitud; planilla; ticket; valor a devolver; apoderado; poder autenticado
      [ id |-> "carta_representante",
        titulo |->
          <<"C","a","r","t","a"," ","f","i","r","m","a","d","a"," ","p","o","r"," ","e","l"," ","R","e","p","r","e","s","e","n","t","a","t","e"," ","L","e","g","a","l"," ","o"," ","q","u","i","e","n"," ","h","a","g","a"," ","s","u","s"," ","v","e","c","e","s",","," ","i","n","d","i","c","a","n","d","o"," ","d","e"," ","f","o","r","m","a"," ","c","l","a","r","a"," ","e","l"," ","m","o","t","i","v","o"," ","d","e"," ","l","a"," ","s","o","l","i","c","i","t","u","d",","," ","r","e","l","a","c","i","o","n","a","n","d","o"," ","e","l"," ","n","u","m","e","r","o"," ","d","e"," ","p","l","a","n","i","l","l","a","s"," ","o"," ","t","i","c","k","e","t","s",","," ","p","e","r","i'","o","d","o"," ","o"," ","f","e","c","h","a"," ","d","e"," ","p","a","g","o",","," ","v","a","l","o","r"," ","p","a","g","a","d","o"," ","y"," ","v","a","l","o","r"," ","a"," ","d","e","v","o","l","v","e","r","."," ","E","n"," ","c","a","s","o","s"," ","d","e"," ","a","p","o","d","e","r","a","d","o","s"," ","s","e"," ","d","e","b","e"," ","a","n","e","x","a","r"," ","p","o","d","e","r"," ","d","e","b","i","d","a","m","e","n","t","e"," ","a","u","t","e","n","t","i","c","a","d","o"," ","a","n","t","e"," ","n","o","t","a","r","i'","a",".">>,
        keywords |->
          << <<"c","a","r","t","a">>,
             <<"s","o","l","i","c","i","t","u","d">>,
             <<"m","o","t","i","v","o"," ","d","e"," ","l","a"," ","s","o","l","i","c","i","t","u","d">>,
             <<"p","l","a","n","i","l","l","a">>,
             <<"t","i","c","k","e","t">>,
             <<"v","a","l","o","r"," ","a"," ","d","e","v","o","l","v","e","r">>,
             <<"a","p","o","d","e","r","a","d","o">>,
             <<"p","o","d","e","r"," ","a","u","t","e","n","t","i","c","a","d","o">> >>,
        requerido |-> TRUE,
        vigencia_dias |-> 0 ],
      \* keywords: rut; registro unico tributario; registro unico tributario; copia rut
      [ id |-> "rut",
        titulo |->
          <<"C","o","p","i","a"," ","d","e"," ","R","u","t"," ","v","i","g","e","n","t","e",".">>,
        keywords |->
          << <<"r","u","t">>,
             <<"r","e","g","i","s","t","r","o"," ","u'","n","i","c","o"," ","t","r","i","b","u","t","a","r","i","o">>,
             <<"r","e","g","i","s","t","r","o"," ","u","n","i","c","o"," ","t","r","i","b","u","t","a","r","i","o">>,
             <<"c","o","p","i","a"," ","r","u","t">> >>,
        requerido |-> TRUE,
        vigencia_dias |-> 0 ],
      \* keywords: camara de comercio; camara de comercio; certificado de existencia; certificado de existencia y representacion; certificado existencia representacion
      [ id |-> "camara_comercio",
        titulo |->
          <<"C","e","r","t","i","f","i","c","a","d","o"," ","d","e"," ","E","x","i","s","t","e","n","c","i","a"," ","y"," ","R","e","p","r","e","s","e","n","t","a","c","i","o'","n"," ","L","e","g","a","l"," ","e","x","p","e","d","i","d","o"," ","p","o","r"," ","l","a"," ","C","a'","m","a","r","a"," ","d","e"," ","C","o","m","e","r","c","i","o"," ","n","o"," ","m","a","y","o","r"," ","a"," ","9","0"," ","d","i'","a","s"," ","h","a'","b","i","l","e","s","."," ","P","a","r","a"," ","o","t","r","o"," ","t","i","p","o"," ","d","e"," ","e","m","p","l","e","a","d","o","r","e","s"," ","n","o"," ","o","b","l","i","g","a","d","o","s"," ","a"," ","r","e","g","i","s","t","r","a","r","s","e"," ","e","n"," ","C","a'","m","a","r","a"," ","d","e"," ","C","o","m","e","r","c","i","o",","," ","d","o","c","u","m","e","n","t","o"," ","i","d","o'","n","e","o"," ","q","u","e"," ","a","c","r","e","d","i","t","e"," ","l","a"," ","e","x","i","s","t","e","n","c","i","a"," ","y"," ","r","e","p","r","e","s","e","n","t","a","c","i","o'","n"," ","l","e","g","a","l",".">>,
        keywords |->
          << <<"c","a'","m","a","r","a"," ","d","e"," ","c","o","m","e","r","c","i","o">>,
             <<"c","a","m","a","r","a"," ","d","e"," ","c","o","m","e","r","c","i","o">>,
             <<"c","e","r","t","i","f","i","c","a","d","o"," ","d","e"," ","e","x","i","s","t","e","n","c","i","a">>,
             <<"c","e","r","t","i","f","i","c","a","d","o"," ","d","e"," ","e","x","i","s","t","e","n","c","i","a"," ","y"," ","r","e","p","r","e","s","e","n","t","a","c","i","o'","n">>,
             <<"c","e","r","t","i","f","i","c","a","d","o"," ","e","x","i","s","t","e","n","c","i","a"," ","r","e","p","r","e","s","e","n","t","a","c","i","o","n">> >>,
        requerido |-> TRUE,
        vigencia_dias |-> 90 ],
      \* keywords: cedula; cedula; cedula de ciudadania; cedula de ciudadania; cc
      [ id |-> "cedula_persona_natural",
        titulo |->
          <<"P","a","r","a"," ","e","m","p","l","e","a","d","o","r","e","s"," ","p","e","r","s","o","n","a","s"," ","n","a","t","u","r","a","l","e","s"," ","c","o","p","i","a"," ","d","e"," ","l","a"," ","C","e'","d","u","l","a"," ","d","e"," ","C","i","u","d","a","d","a","n","i'","a",".">>,
        keywords |->
          << <<"c","e'","d","u","l","a">>,
             <<"c","e","d","u","l","a">>,
             <<"c","e'","d","u","l","a"," ","d","e"," ","c","i","u","d","a","d","a","n","i'","a">>,
             <<"c","e","d","u","l","a"," ","d","e"," ","c","i","u","d","a","d","a","n","i","a">>,
             <<"c","c">> >>,
        requerido |-> FALSE,
        vigencia_dias |-> 0 ],
      \* keywords: acta consorcial; consorcio; union temporal; union temporal; acta consorcio; acta consorcial firmada
      [ id |-> "acta_consorcial",
        titulo |->
          <<"P","a","r","a"," ","C","o","n","s","o","r","c","i","o","s"," ","y"," ","U","n","i","o","n","e","s"," ","T","e","m","p","o","r","a","l","e","s"," ","s","e"," ","d","e","b","e","r","a'"," ","a","n","e","x","a","r"," ","c","o","p","i","a"," ","d","e","l"," ","A","c","t","a"," ","C","o","n","s","o","r","c","i","a","l"," ","f","i","r","m","a","d","a"," ","p","o","r"," ","l","a","s"," ","p","a","r","t","e","s",","," ","c","o","p","i","a"," ","d","e","l"," ","R","u","t"," ","v","i","g","e","n","t","e"," ","y"," ","c","o","p","i","a"," ","d","e","l"," ","C","e","r","t","i","f","i","c","a","d","o"," ","d","e"," ","e","x","i","s","t","e","n","c","i","a"," ","y"," ","R","e","p","r","e","s","e","n","t","a","c","i","o'","n"," ","L","e","g","a","l"," ","d","e"," ","c","a","d","a"," ","u","n","o"," ","d","e"," ","l","o","s"," ","C","o","n","s","o","r","c","i","a","d","o","s"," ","o"," ","A","s","o","c","i","a","d","o","s"," ","p","a","r","a"," ","p","e","r","s","o","n","a","s"," ","j","u","r","i'","d","i","c","a","s"," ","y"," ","p","a","r","a"," ","p","e","r","s","o","n","a","s"," ","n","a","t","u","r","a","l","e","s"," ","c","o","p","i","a"," ","d","e"," ","l","a"," ","c","e'","d","u","l","a"," ","d","e"," ","c","i","u","d","a","d","a","n","i'","a",".">>,
        keywords |->
          << <<"a","c","t","a"," ","c","o","n","s","o","r","c","i","a","l">>,
             <<"c","o","n","s","o","r","c","i","o">>,
             <<"u","n","i","o'","n"," ","t","e","m","p","o","r","a","l">>,
             <<"u","n","i","o","n"," ","t","e","m","p","o","r","a","l">>,
             <<"a","c","t","a"," ","c","o","n","s","o","r","c","i","o">>,
             <<"a","c","t","a"," ","c","o","n","s","o","r","c","i","a","l"," ","f","i","r","m","a","d","a">> >>,
        requerido |-> FALSE,
        vigencia_dias |-> 0 ],
      \* keywords: certificacion bancaria; certificacion bancaria; certificado bancario; certificacion bancaria 30 dias
      [ id |-> "cert_bancaria",
        titulo |->
          <<"C","e","r","t","i","f","i","c","a","c","i","o'","n"," ","B","a","n","c","a","r","i","a"," ","n","o"," ","m","a","y","o","r"," ","a"," ","3","0"," ","d","i'","a","s"," ","h","a'","b","i","l","e","s"," ","d","e"," ","e","x","p","e","d","i","c","i","o'","n"," ","a"," ","n","o","m","b","r","e"," ","d","e","l"," ","p","e","t","i","c","i","o","n","a","r","i","o",".">>,
        keywords |->
          << <<"c","e","r","t","i","f","i","c","a","c","i","o'","n"," ","b","a","n","c","a","r","i","a">>,
             <<"c","e","r","t","i","f","i","c","a","c","i","o","n"," ","b","a","n","c","a","r","i","a">>,
             <<"c","e","r","t","i","f","i","c","a","d","o"," ","b","a","n","c","a","r","i","o">>,
             <<"c","e","r","t","i","f","i","c","a","c","i","o","n"," ","b","a","n","c","a","r","i","a"," ","3","0"," ","d","i","a","s">> >>,
        requerido |-> TRUE,
        vigencia_dias |-> 30 ],
      \* keywords: certificacion firmada; certificacion firmada; contador; revisor fiscal; certificacion contador
      [ id |-> "cert_contador",
        titulo |->
          <<"C","e","r","t","i","f","i","c","a","c","i","o'","n"," ","f","i","r","m","a","d","a"," ","p","o","r"," ","e","l"," ","C","o","n","t","a","d","o","r"," ","o"," ","R","e","v","i","s","o","r"," ","F","i","s","c","a","l"," ","a","v","a","l","a","n","d","o"," ","e","l"," ","m","o","t","i","v","o"," ","d","e"," ","l","a"," ","d","e","v","o","l","u","c","i","o'","n",".">>,
        keywords |->
          << <<"c","e","r","t","i","f","i","c","a","c","i","o'","n"," ","f","i","r","m","a","d","a">>,
             <<"c","e","r","t","i","f","i","c","a","c","i","o","n"," ","f","i","r","m","a","d","a">>,
             <<"c","o","n","t","a","d","o","r">>,
             <<"r","e","v","i","s","o","r"," ","f","i","s","c","a","l">>,
             <<"c","e","r","t","i","f","i","c","a","c","i","o","n"," ","c","o","n","t","a","d","o","r">> >>,
        requerido |-> TRUE,
        vigencia_dias |-> 0 ],
      \* keywords: tarjeta profesional; tarjeta prof; tarjeta profesional contador; tarjeta profesional revisor
      [ id |-> "tarjeta_profesional",
        titulo |->
          <<"C","o","p","i","a"," ","d","e"," ","l","a"," ","t","a","r","j","e","t","a"," ","p","r","o","f","e","s","i","o","n","a","l"," ","d","e","l"," ","C","o","n","t","a","d","o","r"," ","o"," ","R","e","v","i","s","o","r"," ","F","i","s","c","a","l"," ","q","u","e"," ","f","i","r","m","a"," ","l","a"," ","c","e","r","t","i","f","i","c","a","c","i","o'","n",".">>,
        keywords |->
          << <<"t","a","r","j","e","t","a"," ","p","r","o","f","e","s","i","o","n","a","l">>,
             <<"t","a","r","j","e","t","a"," ","p","r","o","f">>,
             <<"t","a","r","j","e","t","a"," ","p","r","o","f","e","s","i","o","n","a","l"," ","c","o","n","t","a","d","o","r">>,
             <<"t","a","r","j","e","t","a"," ","p","r","o","f","e","s","i","o","n","a","l"," ","r","e","v","i","s","o","r">> >>,
        requerido |-> TRUE,
        vigencia_dias |-> 0 ],
      \* keywords: contrato; salario integral; contrato firmado; error en IBC
      [ id |-> "contrato_salario_integral",
        titulo |->
          <<"P","a","r","a"," ","d","e","v","o","l","u","c","i","o","n","e","s"," ","p","o","r"," ","e","r","r","o","r"," ","e","n"," ","I","B","C"," ","p","o","r"," ","S","a","l","a","r","i","o"," ","I","n","t","e","g","r","a","l"," ","a","n","e","x","a","r"," ","c","o","p","i","a"," ","d","e"," ","c","o","n","t","r","a","t","o"," ","f","i","r","m","a","d","o"," ","p","o","r"," ","l","a","s"," ","p","a","r","t","e","s",".">>,
        keywords |->
          << <<"c","o","n","t","r","a","t","o">>,
             <<"s","a","l","a","r","i","o"," ","i","n","t","e","g","r","a","l">>,
             <<"c","o","n","t","r","a","t","o"," ","f","i","r","m","a","d","o">>,
             <<"e","r","r","o","r"," ","e","n"," ","I","B","C">> >>,
        requerido |-> FALSE,
        vigencia_dias |-> 0 ],
      \* keywords: recibo; fic; monetizacion; recibo de pagos; recibo fic
      [ id |-> "recibo_pago_fic",
        titulo |->
          <<"R","e","c","i","b","o"," ","d","e"," ","p","a","g","o","s"," ","d","e"," ","F","I","C"," ","o"," ","M","o","n","e","t","i","z","a","c","i","o'","n"," ","p","a","r","a"," ","C","o","n","t","r","a","t","o"," ","d","e"," ","A","p","r","e","n","d","i","z","a","j","e",".">>,
        keywords |->
          << <<"r","e","c","i","b","o">>,
             <<"f","i","c">>,
             <<"m","o","n","e","t","i","z","a","c","i","o","n">>,
             <<"r","e","c","i","b","o"," ","d","e"," ","p","a","g","o","s">>,
             <<"r","e","c","i","b","o"," ","f","i","c">> >>,
        requerido |-> FALSE,
        vigencia_dias |-> 0 ],
      \* keywords: resolucion; resolucion; multado; revoco; revoco; revocaron; resoluciones multa; ejecutoriada
      [ id |-> "resoluciones_multas",
        titulo |->
          <<"C","o","p","i","a","s"," ","d","e"," ","l","a","s"," ","R","e","s","o","l","u","c","i","o","n","e","s"," ","c","o","n"," ","l","a"," ","c","u","a","l"," ","m","u","l","t","a","r","o","n"," ","y"," ","r","e","v","o","c","a","r","o","n"," ","e","l"," ","p","a","g","o"," ","d","e"," ","l","a"," ","M","u","l","t","a"," ","d","e","b","i","d","a","m","e","n","t","e"," ","e","j","e","c","u","t","o","r","i","a","d","a","s"," ","a"," ","3","1"," ","d","e"," ","d","i","c","i","e","m","b","r","e"," ","d","e"," ","2","0","1","9",".">>,
        keywords |->
          << <<"r","e","s","o","l","u","c","i","o'","n">>,
             <<"r","e","s","o","l","u","c","i","o","n">>,
             <<"m","u","l","t","a","d","o">>,
             <<"r","e","v","o","c","o'">>,
             <<"r","e","v","o","c","o">>,
             <<"r","e","v","o","c","a","r","o","n">>,
             <<"r","e","s","o","l","u","c","i","o","n","e","s"," ","m","u","l","t","a">>,
             <<"e","j","e","c","u","t","o","r","i","a","d","a">> >>,
        requerido |-> FALSE,
        vigencia_dias |-> 0 ]
    >>

CHECKLIST_no_misional ==
    <<
      \* keywords: carta; solicitud; carta de solicitud; firmada por el peticionario; representante legal
      [ id |-> "carta_peticionario",
        titulo |->
          <<"C","a","r","t","a"," ","d","e"," ","s","o","l","i","c","i","t","u","d"," ","f","i","r","m","a","d","a"," ","p","o","r"," ","e","l"," ","p","e","t","i","c","i","o","n","a","r","i","o","."," ","E","n"," ","e","l"," ","c","a","s","o"," ","d","e"," ","p","e","r","s","o","n","a","s"," ","j","u","r","i'","d","i","c","a","s"," ","d","e","b","e","r","a'"," ","s","e","r"," ","f","i","r","m","a","d","a"," ","p","o","r"," ","e","l"," ","r","e","p","r","e","s","e","n","t","a","n","t","e"," ","l","e","g","a","l",".">>,
        keywords |->
          << <<"c","a","r","t","a">>,
             <<"s","o","l","i","c","i","t","u","d">>,
             <<"c","a","r","t","a"," ","d","e"," ","s","o","l","i","c","i","t","u","d">>,
             <<"f","i","r","m","a","d","a"," ","p","o","r"," ","e","l"," ","p","e","t","i","c","i","o","n","a","r","i","o">>,
             <<"r","e","p","r","e","s","e","n","t","a","n","t","e"," ","l","e","g","a","l">> >>,
        requerido |-> TRUE,
        vigencia_dias |-> 0 ],
      \* keywords: cedula; cedula; cedula de ciudadania; cedula de ciudadania; cc
      [ id |-> "cedula_persona_natural_nm",
        titulo |->
          <<"P","a","r","a"," ","p","e","r","s","o","n","a","s"," ","n","a","t","u","r","a","l","e","s"," ","c","o","p","i","a"," ","d","e"," ","l","a"," ","c","e'","d","u","l","a"," ","d","e"," ","c","i","u","d","a","d","a","n","i'","a"," ","d","e","l"," ","p","e","t","i","c","i","o","n","a","r","i","o",".">>,
        keywords |->
          << <<"c","e'","d","u","l","a">>,
             <<"c","e","d","u","l","a">>,
             <<"c","e","d","u","l","a"," ","d","e"," ","c","i","u","d","a","d","a","n","i","a">>,
             <<"c","e'","d","u","l","a"," ","d","e"," ","c","i","u","d","a","d","a","n","i'","a">>,
             <<"c","c">> >>,
        requerido |-> TRUE,
        vigencia_dias |-> 0 ],
      \* keywords: camara de comercio; camara de comercio; certificado de existencia; certificado existencia representacion
      [ id |-> "camara_comercio_nm",
        titulo |->
          <<"P","a","r","a"," ","p","e","r","s","o","n","a","s"," ","j","u","r","i'","d","i","c","a","s",","," ","C","e","r","t","i","f","i","c","a","d","o"," ","d","e"," ","E","x","i","s","t","e","n","c","i","a"," ","y"," ","R","e","p","r","e","s","e","n","t","a","c","i","o'","n"," ","L","e","g","a","l"," ","e","x","p","e","d","i","d","o"," ","p","o","r"," ","l","a"," ","C","a'","m","a","r","a"," ","d","e"," ","C","o","m","e","r","c","i","o"," ","n","o"," ","m","a","y","o","r"," ","a"," ","9","0"," ","d","i'","a","s"," ","h","a'","b","i","l","e","s","."," ","P","a","r","a"," ","o","t","r","o"," ","t","i","p","o"," ","d","e"," ","e","m","p","l","e","a","d","o","r","e","s"," ","n","o"," ","o","b","l","i","g","a","d","o","s"," ","a"," ","r","e","g","i","s","t","r","a","r","s","e"," ","e","n"," ","C","a'","m","a","r","a"," ","d","e"," ","C","o","m","e","r","c","i","o",","," ","d","o","c","u","m","e","n","t","o"," ","i","d","o'","n","e","o"," ","q","u","e"," ","a","c","r","e","d","i","t","e"," ","l","a"," ","e","x","i","s","t","e","n","c","i","a"," ","y"," ","r","e","p","r","e","s","e","n","t","a","c","i","o'","n"," ","l","e","g","a","l",".">>,
        keywords |->
          << <<"c","a'","m","a","r","a"," ","d","e"," ","c","o","m","e","r","c","i","o">>,
             <<"c","a","m","a","r","a"," ","d","e"," ","c","o","m","e","r","c","i","o">>,
             <<"c","e","r","t","i","f","i","c","a","d","o"," ","d","e"," ","e","x","i","s","t","e","n","c","i","a">>,
             <<"c","e","r","t","i","f","i","c","a","d","o"," ","e","x","i","s","t","e","n","c","i","a"," ","r","e","p","r","e","s","e","n","t","a","c","i","o","n">> >>,
        requerido |-> TRUE,
        vigencia_dias |-> 90 ],
      \* keywords: rut; copia rut; registro unico tributario
      [ id |-> "rut_nm",
        titulo |->
          <<"P","a","r","a"," ","p","e","r","s","o","n","a","s"," ","j","u","r","i'","d","i","c","a","s",","," ","c","o","p","i","a"," ","d","e"," ","R","u","t"," ","v","i","g","e","n","t","e",".">>,
        keywords |->
          << <<"r","u","t">>,
             <<"c","o","p","i","a"," ","r","u","t">>,
             <<"r","e","g","i","s","t","r","o"," ","u'","n","i","c","o"," ","t","r","i","b","u","t","a","r","i","o">> >>,
        requerido |-> TRUE,
        vigencia_dias |-> 0 ],
      \* keywords: certificacion bancaria; certificacion bancaria; certificado bancario
      [ id |-> "cert_bancaria_nm",
        titulo |->
          <<"C","e","r","t","i","f","i","c","a","c","i","o'","n"," ","B","a","n","c","a","r","i","a"," ","n","o"," ","m","a","y","o","r"," ","a"," ","3","0"," ","d","i'","a","s"," ","h","a'","b","i","l","e","s"," ","d","e"," ","e","x","p","e","d","i","c","i","o'","n"," ","a"," ","n","o","m","b","r","e"," ","d","e","l"," ","p","e","t","i","c","i","o","n","a","r","i","o",".">>,
        keywords |->
          << <<"c","e","r","t","i","f","i","c","a","c","i","o'","n"," ","b","a","n","c","a","r","i","a">>,
             <<"c","e","r","t","i","f","i","c","a","c","i","o","n"," ","b","a","n","c","a","r","i","a">>,
             <<"c","e","r","t","i","f","i","c","a","d","o"," ","b","a","n","c","a","r","i","o">> >>,
        requerido |-> TRUE,
        vigencia_dias |-> 30 ],
      \* keywords: recibo; recibos de pago; planilla; comprobante
      [ id |-> "recibos_pago_nm",
        titulo |->
          <<"C","o","p","i","a"," ","d","e","l"," ","r","e","c","i","b","o"," ","o"," ","r","e","c","i","b","o","s"," ","d","e"," ","p","a","g","o"," ","l","e","g","i","b","l","e","s",".">>,
        keywords |->
          << <<"r","e","c","i","b","o">>,
             <<"r","e","c","i","b","o","s"," ","d","e"," ","p","a","g","o">>,
             <<"p","l","a","n","i","l","l","a">>,
             <<"c","o","m","p","r","o","b","a","n","t","e">> >>,
        requerido |-> TRUE,
        vigencia_dias |-> 0 ],
      \* keywords: acta de terminacion; acta terminacion; liquidacion del convenio; liquidacion convenio; terminacion convenio
      [ id |-> "acta_terminacion_convenio",
        titulo |->
          <<"A","c","t","a"," ","d","e"," ","t","e","r","m","i","n","a","c","i","o'","n"," ","d","e"," ","l","i","q","u","i","d","a","c","i","o'","n"," ","d","e","l"," ","c","o","n","v","e","n","i","o",".">>,
        keywords |->
          << <<"a","c","t","a"," ","d","e"," ","t","e","r","m","i","n","a","c","i","o'","n">>,
             <<"a","c","t","a"," ","t","e","r","m","i","n","a","c","i","o","n">>,
             <<"l","i","q","u","i","d","a","c","i","o'","n"," ","d","e","l"," ","c","o","n","v","e","n","i","o">>,
             <<"l","i","q","u","i","d","a","c","i","o","n"," ","c","o","n","v","e","n","i","o">>,
             <<"t","e","r","m","i","n","a","c","i","o","n"," ","c","o","n","v","e","n","i","o">> >>,
        requerido |-> FALSE,
        vigencia_dias |-> 0 ],
      \* keywords: factura; factura electronica; factura electronica; factura sena; factura electronica venta
      [ id |-> "factura_produccion_nm",
        titulo |->
          <<"C","o","p","i","a"," ","d","e"," ","l","a"," ","F","a","c","t","u","r","a"," ","E","l","e","c","t","r","o'","n","i","c","a"," ","d","e"," ","v","e","n","t","a"," ","g","e","n","e","r","a","d","a"," ","p","o","r"," ","e","l"," ","S","E","N","A",".">>,
        keywords |->
          << <<"f","a","c","t","u","r","a">>,
             <<"f","a","c","t","u","r","a"," ","e","l","e","c","t","r","o'","n","i","c","a">>,
             <<"f","a","c","t","u","r","a"," ","e","l","e","c","t","r","o","n","i","c","a">>,
             <<"f","a","c","t","u","r","a"," ","s","e","n","a">>,
             <<"f","a","c","t","u","r","a"," ","e","l","e","c","t","r","o'","n","i","c","a"," ","v","e","n","t","a">> >>,
        requerido |-> FALSE,
        vigencia_dias |-> 0 ],
      \* keywords: autorizacion de devolucion; autorizacion de devolucion; coordinador del grupo de recaudo; coordinador; certificacion de autorizacion
      [ id |-> "cert_autorizacion_coordinador_nm",
        titulo |->
          <<"C","e","r","t","i","f","i","c","a","c","i","o'","n"," ","d","e"," ","a","u","t","o","r","i","z","a","c","i","o'","n"," ","d","e"," ","d","e","v","o","l","u","c","i","o'","n"," ","d","e","l"," ","c","u","p","o'","n"," ","d","e"," ","p","a","g","o"," ","f","i","r","m","a","d","a"," ","p","o","r"," ","e","l"," ","C","o","o","r","d","i","n","a","d","o","r"," ","d","e","l"," ","G","r","u","p","o"," ","d","e"," ","R","e","c","a","u","d","o"," ","y"," ","C","a","r","t","e","r","a",".">>,
        keywords |->
          << <<"a","u","t","o","r","i","z","a","c","i","o'","n"," ","d","e"," ","d","e","v","o","l","u","c","i","o'","n">>,
             <<"a","u","t","o","r","i","z","a","c","i","o","n"," ","d","e"," ","d","e","v","o","l","u","c","i","o","n">>,
             <<"c","o","o","r","d","i","n","a","d","o","r"," ","d","e","l"," ","g","r","u","p","o"," ","d","e"," ","r","e","c","a","u","d","o">>,
             <<"c","o","o","r","d","i","n","a","d","o","r">>,
             <<"c","e","r","t","i","f","i","c","a","c","i","o'","n"," ","d","e"," ","a","u","t","o","r","i","z","a","c","i","o'","n">> >>,
        requerido |-> FALSE,
        vigencia_dias |-> 0 ]
    >>

\* CHECKLIST["misional"] if tipo_devolucion == "misional" else CHECKLIST["no_misional"]
CHECKLIST(tipo_devolucion) ==
    IF tipo_devolucion = "misional" THEN CHECKLIST_misional ELSE CHECKLIST_no_misional

---------------------------------------------------------------------------
(* ChecklistEngine: evaluar_item                                           *)

\* one entry of observaciones; the dates are those the message cites
Nota(tag) ==
    [tag |-> tag, recepcion |-> SinFecha, limite |-> SinFecha,
     expedicion |-> SinFecha, conf |-> 0]

NotaVigencia(tag, recepcion, limite, expedicion) ==
    [tag |-> tag, recepcion |-> recepcion, limite |-> limite,
     expedicion |-> expedicion, conf |-> 0]

\* the evidence returned: None when no document was accepted
Evidencia(archivos) == [nulo |-> archivos = <<>>, lista |-> archivos]

\* the items whose id holds "bancaria" (contexto_bancario)
ItemsBancarios == {"cert_bancaria", "cert_bancaria_nm"}

ItemsConFirma == {"carta_representante", "carta_peticionario", "cert_contador"}

\* the applicability gate: the note of the N/A it returns, "" when it passes
NotaNoAplica(item, peticionario_tipo) ==
    IF peticionario_tipo = "persona_natural" /\ item.id \in {"camara_comercio_nm", "rut_nm"}
    THEN "No aplica para persona natural"
    ELSE IF /\ item.id \in {"cedula_persona_natural", "cedula_persona_natural_nm"}
            /\ peticionario_tipo # "persona_natural"
    THEN "Aplica solo si peticionario es persona natural"
    ELSE IF item.id = "acta_consorcial" /\ peticionario_tipo # "consorcio"
    THEN "Aplica solo si peticionario es consorcio/union temporal"
    ELSE ""

\* score of a document for an item: the keywords found in the lowercased text
Puntaje(item, doc) ==
    LET Contar(texto) ==
            Cardinality({ k \in 1..Len(item.keywords) :
                            Contiene(texto, lower(item.keywords[k])) })
    IN  Contar(lower(doc.texto))

\* archivo_inferido and item["id"] in archivo_inferido
EsInferido(item, archivo_inferido) ==
    /\ ~archivo_inferido.nulo
    /\ archivo_inferido.ids # <<>>
    /\ item.id \in Rango(archivo_inferido.ids)

\* mutant: one hit is enough whether or not the item was inferred
CumpleUmbralUnoBasta(es_inferido, score) == score >= 1

CumpleUmbral(es_inferido, score) ==
    (es_inferido /\ score >= 1) \/ (~es_inferido /\ score >= 2)

\* mutant: the boundary day itself counts as expired
DecidirVigenciaEstricta(fecha_recepcion_date, fecha_limite_validez) ==
    IF FechaLT(fecha_recepcion_date, fecha_limite_validez) THEN "C" ELSE "Falta"

DecidirVigencia(fecha_recepcion_date, fecha_limite_validez) ==
    IF FechaLE(fecha_recepcion_date, fecha_limite_validez) THEN "C" ELSE "Falta"

\* the confidence override
AjustePorConfianza(estado, doc) ==
    IF doc.ocr_conf < 30 \/ Len(strip(doc.texto)) < 40 THEN "Revision" ELSE estado

\* mutant: the signature is asked of every item
AjustePorFirmaTodos(estado, item, doc) ==
    IF ~doc.firma_manuscrita /\ estado = "C" THEN "Revision" ELSE estado

\* the signature override
AjustePorFirma(estado, item, doc) ==
    IF item.id \in ItemsConFirma /\ ~doc.firma_manuscrita /\ estado = "C"
    THEN "Revision" ELSE estado

\* mutant: an error in the validity check leaves the document as missing
EstadoErrorVigenciaFalta == "Falta"

\* the except branch of the validity check
EstadoErrorVigencia == "Revision"

\* mutant: a document without a date is taken as current
EstadoSinFechaCompleto == "C"

EstadoSinFecha == "Revision"

\* the body of the loop over documentos_detectados for document i;
\* acc holds estado, archivos, observaciones and the documents (the loop
\* writes the redetected date back into the document)
PasoDocumento(item, acc, i, fecha_recepcion_dt, archivo_inferido, hoy) ==
    LET doc == acc.documentos[i]
        es_inferido == EsInferido(item, archivo_inferido)
        vig == item.vigencia_dias
        bajaConfianza == doc.ocr_conf < 30 \/ Len(strip(doc.texto)) < 40
        sinFirma == item.id \in ItemsConFirma /\ ~doc.firma_manuscrita
        obsInferido == IF es_inferido THEN <<Nota("inferencia")>> ELSE <<>>
        obsConfianza ==
            IF bajaConfianza THEN <<[Nota("ocr_baja") EXCEPT !.conf = doc.ocr_conf]>>
            ELSE <<>>
        obsFirma == IF sinFirma THEN <<Nota("sin_firma")>> ELSE <<>>
        \* the end of the body, once the validity branch has set estado
        Cerrar(estadoVigencia, obsRedetectada, obsVigencia, persistida) ==
            [estado |-> AjustePorFirma(AjustePorConfianza(estadoVigencia, doc), item, doc),
             archivos |-> Append(acc.archivos,
                                 [archivo |-> doc.archivo, paginas |-> doc.paginas]),
             observaciones |-> acc.observaciones \o obsInferido \o obsRedetectada
                                 \o obsVigencia \o obsConfianza \o obsFirma,
             documentos |-> IF persistida = None THEN acc.documentos
                            ELSE [acc.documentos EXCEPT ![i].fecha_documento = persistida]]
        \* "if fecha_doc:" and its else
        Validar(fecha_doc, fecha_recepcion_date, fecha_limite_validez, redetectada) ==
            LET obsRedetectada == IF redetectada THEN <<Nota("redetectada")>> ELSE <<>>
                persistida == IF redetectada THEN isoformat(fecha_doc) ELSE None
            IN  IF fecha_doc = SinFecha
                THEN Cerrar(EstadoSinFecha, obsRedetectada, <<Nota("sin_fecha")>>, persistida)
                ELSE IF fecha_recepcion_date = SinFecha
                THEN Cerrar("Revision", obsRedetectada, <<Nota("sin_recepcion")>>, persistida)
                ELSE IF FueraDeRango(fecha_limite_validez)
                THEN Cerrar(EstadoErrorVigencia, obsRedetectada,
                            <<Nota("error_vigencia")>>, persistida)
                ELSE IF DecidirVigencia(fecha_recepcion_date, fecha_limite_validez) = "C"
                THEN Cerrar("C", obsRedetectada,
                            <<NotaVigencia("vigente", fecha_recepcion_date,
                                           fecha_limite_validez, fecha_doc)>>, persistida)
                ELSE Cerrar("Falta", obsRedetectada,
                            <<NotaVigencia("vencido", fecha_recepcion_date,
                                           fecha_limite_validez, fecha_doc)>>, persistida)
        ConFecha(fecha_doc, redetectada) ==
            Validar(fecha_doc, obtener_fecha_date(fecha_recepcion_dt, hoy),
                    fecha_limite_habiles(fecha_doc, vig), redetectada)
        \* "if not fecha_doc:" with the stored date already converted
        Resolver(almacenada, fecha_redetectada) ==
            IF almacenada # SinFecha THEN ConFecha(almacenada, FALSE)
            ELSE ConFecha(fecha_redetectada, fecha_redetectada # SinFecha)
    IN  IF ~CumpleUmbral(es_inferido, Puntaje(item, doc)) THEN acc
        ELSE IF vig = 0 THEN Cerrar("C", <<>>, <<>>, None)
        ELSE Resolver(IF doc.fecha_documento.clase # "None"
                      THEN obtener_fecha_date(doc.fecha_documento, hoy)
                      ELSE SinFecha,
                      extraer_fecha_mejorada(doc.texto, item.id \in ItemsBancarios, hoy))

\* mutant: the loop ends at the first Document that is accepted
RECURSIVE RecorrerDocumentosUnaVez(_, _, _, _, _, _)
RecorrerDocumentosUnaVez(item, acc, i, fecha_recepcion_dt, archivo_inferido, hoy) ==
    IF i > Len(acc.documentos) \/ acc.archivos # <<>> THEN acc
    ELSE RecorrerDocumentosUnaVez(item,
                                  PasoDocumento(item, acc, i, fecha_recepcion_dt,
                                                archivo_inferido, hoy),
                                  i + 1, fecha_recepcion_dt, archivo_inferido, hoy)

\* the loop over documentos_detectados from the i-th Document on
RECURSIVE RecorrerDocumentos(_, _, _, _, _, _)
RecorrerDocumentos(item, acc, i, fecha_recepcion_dt, archivo_inferido, hoy) ==
    IF i > Len(acc.documentos) THEN acc
    ELSE RecorrerDocumentos(item,
                            PasoDocumento(item, acc, i, fecha_recepcion_dt,
                                          archivo_inferido, hoy),
                            i + 1, fecha_recepcion_dt, archivo_inferido, hoy)

\* mutant: the evidence search runs before the gate is consulted
EsTerminalNoAplicaNunca(item, peticionario_tipo) == FALSE

EsTerminalNoAplica(item, peticionario_tipo) ==
    NotaNoAplica(item, peticionario_tipo) # ""

\* mutant: an item without evidence is always reported missing
EstadoSinEvidenciaSiempreFalta(item) == "Falta"

EstadoSinEvidencia(item) == IF ~item.requerido THEN "N/A" ELSE "Falta"

\* evaluar_item: what it returns (estado, archivos, observaciones) and the
\* documents as it leaves them
evaluar_item(item, documentos_detectados, fecha_recepcion_dt, peticionario_tipo, archivo_inferido, hoy) ==
    IF EsTerminalNoAplica(item, peticionario_tipo)
    THEN [estado |-> "N/A",
          archivos |-> Evidencia(<<>>),
          observaciones |-> <<Nota(NotaNoAplica(item, peticionario_tipo))>>,
          documentos |-> documentos_detectados]
    ELSE LET Devolver(r) ==
                 [estado |-> IF r.archivos = <<>> THEN EstadoSinEvidencia(item) ELSE r.estado,
                  archivos |-> Evidencia(r.archivos),
                  observaciones |-> r.observaciones,
                  documentos |-> r.documentos]
         IN  Devolver(RecorrerDocumentos(
                          item,
                          [estado |-> "Falta", archivos |-> <<>>, observaciones |-> <<>>,
                           documentos |-> documentos_detectados],
                          1, fecha_recepcion_dt, archivo_inferido, hoy))

---------------------------------------------------------------------------
(* ChecklistEngine: generar_checklist                                      *)

\* the receipt date handed to evaluar_item.  isinstance(x, (datetime,
\* datetime.date)) answers True for a datetime; for anything else it reaches
\* datetime.date, which is a method of the class datetime and no type, and
\* raises TypeError: the handler then takes datetime.now()
ResolverFechaRecepcion(fecha_recepcion_str, hoy) ==
    IF fecha_recepcion_str.clase = "datetime" THEN fecha_recepcion_str
    ELSE ObjDatetime(hoy)

\* mutant: the inferred ids are not used to filter the catalog
ItemsPermitidosSinFiltro(todos_items, allowed_item_ids) == todos_items

\* "if allowed_item_ids:" keeps the catalog items whose id is in the set,
\* in catalog order; None and the empty list keep every item
ItemsPermitidos(todos_items, allowed_item_ids) ==
    IF ~allowed_item_ids.nulo /\ allowed_item_ids.ids # <<>>
    THEN LET EnConjunto(item) == item.id \in Rango(allowed_item_ids.ids)
         IN  SelectSeq(todos_items, EnConjunto)
    ELSE todos_items

\* the loop over items, one row appended per item: acc holds filas and the
\* documents, which keep the dates evaluar_item writes into them from one
\* item to the next
RECURSIVE RecorrerItems(_, _, _, _, _, _, _)
RecorrerItems(items, acc, tipo_devolucion, fecha_recepcion_dt, peticionario_tipo, allowed_item_ids, hoy) ==
    IF Len(acc.filas) >= Len(items) THEN acc
    ELSE LET item == items[Len(acc.filas) + 1]
             Agregar(r) ==
                 [filas |-> Append(acc.filas,
                                   [TipoDevolucion |-> tipo_devolucion,
                                    PeticionarioTipo |-> peticionario_tipo,
                                    ItemID |-> item.id,
                                    Requerido |-> item.requerido,
                                    Estado |-> r.estado,
                                    ArchivosFuente |-> r.archivos,
                                    Observaciones |-> r.observaciones]),
                  documentos |-> r.documentos]
         IN  RecorrerItems(items,
                           Agregar(evaluar_item(item, acc.documentos, fecha_recepcion_dt,
                                                peticionario_tipo, allowed_item_ids, hoy)),
                           tipo_devolucion, fecha_recepcion_dt, peticionario_tipo,
                           allowed_item_ids, hoy)

DOC_KEYWORDS ==
    <<
      \* solicitud; carta; solicita devolucio'n; motivo de la solicitud; carta de solicitud; carta de peticion; representante legal; atentamente; cordiales saludos; respetados sen~ores
      [ tipo |-> "carta",
        keywords |->
          << <<"s","o","l","i","c","i","t","u","d">>,
             <<"c","a","r","t","a">>,
             <<"s","o","l","i","c","i","t","a"," ","d","e","v","o","l","u","c","i","o'","n">>,
             <<"m","o","t","i","v","o"," ","d","e"," ","l","a"," ","s","o","l","i","c","i","t","u","d">>,
             <<"c","a","r","t","a"," ","d","e"," ","s","o","l","i","c","i","t","u","d">>,
             <<"c","a","r","t","a"," ","d","e"," ","p","e","t","i","c","i","o","n">>,
             <<"r","e","p","r","e","s","e","n","t","a","n","t","e"," ","l","e","g","a","l">>,
             <<"a","t","e","n","t","a","m","e","n","t","e">>,
             <<"c","o","r","d","i","a","l","e","s"," ","s","a","l","u","d","o","s">>,
             <<"r","e","s","p","e","t","a","d","o","s"," ","s","e","n~","o","r","e","s">> >> ],
      \* rut; registro u'nico tributario; registro unico tributario; numero de identificacion tributaria; nu'mero de identificacio'n tributaria
      [ tipo |-> "rut",
        keywords |->
          << <<"r","u","t">>,
             <<"r","e","g","i","s","t","r","o"," ","u'","n","i","c","o"," ","t","r","i","b","u","t","a","r","i","o">>,
             <<"r","e","g","i","s","t","r","o"," ","u","n","i","c","o"," ","t","r","i","b","u","t","a","r","i","o">>,
             <<"n","u","m","e","r","o"," ","d","e"," ","i","d","e","n","t","i","f","i","c","a","c","i","o","n"," ","t","r","i","b","u","t","a","r","i","a">>,
             <<"n","u'","m","e","r","o"," ","d","e"," ","i","d","e","n","t","i","f","i","c","a","c","i","o'","n"," ","t","r","i","b","u","t","a","r","i","a">> >> ],
      \* ca'mara de comercio; camara de comercio; certificado de existencia; certificado de existencia y representacion; certificado de representacion legal; matricula mercantil
      [ tipo |-> "camara_comercio",
        keywords |->
          << <<"c","a'","m","a","r","a"," ","d","e"," ","c","o","m","e","r","c","i","o">>,
             <<"c","a","m","a","r","a"," ","d","e"," ","c","o","m","e","r","c","i","o">>,
             <<"c","e","r","t","i","f","i","c","a","d","o"," ","d","e"," ","e","x","i","s","t","e","n","c","i","a">>,
             <<"c","e","r","t","i","f","i","c","a","d","o"," ","d","e"," ","e","x","i","s","t","e","n","c","i","a"," ","y"," ","r","e","p","r","e","s","e","n","t","a","c","i","o","n">>,
             <<"c","e","r","t","i","f","i","c","a","d","o"," ","d","e"," ","r","e","p","r","e","s","e","n","t","a","c","i","o","n"," ","l","e","g","a","l">>,
             <<"m","a","t","r","i","c","u","l","a"," ","m","e","r","c","a","n","t","i","l">> >> ],
      \* certificacio'n bancaria; certificacion bancaria; certificado bancario; certificacio'n de cuenta; certificacion de cuenta; saldo bancario; certificado de saldo; entidad financiera; numero de cuenta; cuenta corriente; cuenta de ahorros; banco; bancaria; bancario
      [ tipo |-> "cert_bancaria",
        keywords |->
          << <<"c","e","r","t","i","f","i","c","a","c","i","o'","n"," ","b","a","n","c","a","r","i","a">>,
             <<"c","e","r","t","i","f","i","c","a","c","i","o","n"," ","b","a","n","c","a","r","i","a">>,
             <<"c","e","r","t","i","f","i","c","a","d","o"," ","b","a","n","c","a","r","i","o">>,
             <<"c","e","r","t","i","f","i","c","a","c","i","o'","n"," ","d","e"," ","c","u","e","n","t","a">>,
             <<"c","e","r","t","i","f","i","c","a","c","i","o","n"," ","d","e"," ","c","u","e","n","t","a">>,
             <<"s","a","l","d","o"," ","b","a","n","c","a","r","i","o">>,
             <<"c","e","r","t","i","f","i","c","a","d","o"," ","d","e"," ","s","a","l","d","o">>,
             <<"e","n","t","i","d","a","d"," ","f","i","n","a","n","c","i","e","r","a">>,
             <<"n","u","m","e","r","o"," ","d","e"," ","c","u","e","n","t","a">>,
             <<"c","u","e","n","t","a"," ","c","o","r","r","i","e","n","t","e">>,
             <<"c","u","e","n","t","a"," ","d","e"," ","a","h","o","r","r","o","s">>,
             <<"b","a","n","c","o">>,
             <<"b","a","n","c","a","r","i","a">>,
             <<"b","a","n","c","a","r","i","o">> >> ],
      \* recibo; recibos de pago; planilla; comprobante de pago; comprobante de transaccion; voucher de pago; pago de planilla; transaccion financiera; numero de recibo
      [ tipo |-> "recibo_pago",
        keywords |->
          << <<"r","e","c","i","b","o">>,
             <<"r","e","c","i","b","o","s"," ","d","e"," ","p","a","g","o">>,
             <<"p","l","a","n","i","l","l","a">>,
             <<"c","o","m","p","r","o","b","a","n","t","e"," ","d","e"," ","p","a","g","o">>,
             <<"c","o","m","p","r","o","b","a","n","t","e"," ","d","e"," ","t","r","a","n","s","a","c","c","i","o","n">>,
             <<"v","o","u","c","h","e","r"," ","d","e"," ","p","a","g","o">>,
             <<"p","a","g","o"," ","d","e"," ","p","l","a","n","i","l","l","a">>,
             <<"t","r","a","n","s","a","c","c","i","o","n"," ","f","i","n","a","n","c","i","e","r","a">>,
             <<"n","u","m","e","r","o"," ","d","e"," ","r","e","c","i","b","o">> >> ],
      \* resolucio'n; resolucion; revoco'; revoco; revocado; multado; resolucion administrativa; acto administrativo; ejecutoriada
      [ tipo |-> "resolucion",
        keywords |->
          << <<"r","e","s","o","l","u","c","i","o'","n">>,
             <<"r","e","s","o","l","u","c","i","o","n">>,
             <<"r","e","v","o","c","o'">>,
             <<"r","e","v","o","c","o">>,
             <<"r","e","v","o","c","a","d","o">>,
             <<"m","u","l","t","a","d","o">>,
             <<"r","e","s","o","l","u","c","i","o","n"," ","a","d","m","i","n","i","s","t","r","a","t","i","v","a">>,
             <<"a","c","t","o"," ","a","d","m","i","n","i","s","t","r","a","t","i","v","o">>,
             <<"e","j","e","c","u","t","o","r","i","a","d","a">> >> ],
      \* tarjeta profesional; tarjeta prof; tarjeta del contador; tarjeta del revisor fiscal; matricula profesional
      [ tipo |-> "tarjeta_profesional",
        keywords |->
          << <<"t","a","r","j","e","t","a"," ","p","r","o","f","e","s","i","o","n","a","l">>,
             <<"t","a","r","j","e","t","a"," ","p","r","o","f">>,
             <<"t","a","r","j","e","t","a"," ","d","e","l"," ","c","o","n","t","a","d","o","r">>,
             <<"t","a","r","j","e","t","a"," ","d","e","l"," ","r","e","v","i","s","o","r"," ","f","i","s","c","a","l">>,
             <<"m","a","t","r","i","c","u","l","a"," ","p","r","o","f","e","s","i","o","n","a","l">> >> ],
      \* acta consorcial; consorcio; unio'n temporal; union temporal; acta de consorcio; contrato de union temporal; joint venture
      [ tipo |-> "acta_consorcial",
        keywords |->
          << <<"a","c","t","a"," ","c","o","n","s","o","r","c","i","a","l">>,
             <<"c","o","n","s","o","r","c","i","o">>,
             <<"u","n","i","o'","n"," ","t","e","m","p","o","r","a","l">>,
             <<"u","n","i","o","n"," ","t","e","m","p","o","r","a","l">>,
             <<"a","c","t","a"," ","d","e"," ","c","o","n","s","o","r","c","i","o">>,
             <<"c","o","n","t","r","a","t","o"," ","d","e"," ","u","n","i","o","n"," ","t","e","m","p","o","r","a","l">>,
             <<"j","o","i","n","t"," ","v","e","n","t","u","r","e">> >> ],
      \* contrato; salario integral; contrato firmado; contrato de trabajo; contrato laboral; clausulas contractuales
      [ tipo |-> "contrato",
        keywords |->
          << <<"c","o","n","t","r","a","t","o">>,
             <<"s","a","l","a","r","i","o"," ","i","n","t","e","g","r","a","l">>,
             <<"c","o","n","t","r","a","t","o"," ","f","i","r","m","a","d","o">>,
             <<"c","o","n","t","r","a","t","o"," ","d","e"," ","t","r","a","b","a","j","o">>,
             <<"c","o","n","t","r","a","t","o"," ","l","a","b","o","r","a","l">>,
             <<"c","l","a","u","s","u","l","a","s"," ","c","o","n","t","r","a","c","t","u","a","l","e","s">> >> ]
    >>



\* the catalogs as the module defines them
CatalogosDelModulo ==
    [CHECKLIST |-> [misional |-> CHECKLIST_misional, no_misional |-> CHECKLIST_no_misional],
     DOC_KEYWORDS |-> DOC_KEYWORDS,
     COLOMBIA_FESTIVOS |-> COLOMBIA_FESTIVOS]

\* mutant: the catalog list itself is cut down to the inferred items
todos_items_filtrados(todos_items, allowed_item_ids) ==
    IF ~allowed_item_ids.nulo /\ allowed_item_ids.ids # <<>>
    THEN LET EnConjunto(item) == item.id \in Rango(allowed_item_ids.ids)
         IN  SelectSeq(todos_items, EnConjunto)
    ELSE todos_items

\* todos_items after generar_checklist.  todos_items is the list of the
\* catalog itself; the filter builds items as a list of its own, and the loop
\* only reads the items it hands to evaluar_item
todos_items_despues(todos_items, allowed_item_ids) == todos_items

\* the catalogs after a call of generar_checklist
CatalogosTrasChecklist(c, tipo_devolucion, allowed_item_ids) ==
    [c EXCEPT !.CHECKLIST[tipo_devolucion] = todos_items_despues(@, allowed_item_ids)]

\* generar_checklist: the rows of the table it returns, and the documents as
\* it leaves them
generar_checklist(documentos_detectados, tipo_devolucion, fecha_recepcion_str, peticionario_tipo, allowed_item_ids, hoy) ==
    RecorrerItems(ItemsPermitidos(CHECKLIST(tipo_devolucion), allowed_item_ids),
                  [filas |-> <<>>, documentos |-> documentos_detectados],
                  tipo_devolucion,
                  ResolverFechaRecepcion(fecha_recepcion_str, hoy),
                  peticionario_tipo, allowed_item_ids, hoy)

---------------------------------------------------------------------------
(* Texts of the documents the engine is run on                             *)

\* 'CERTIFICACION BANCARIA: el banco emite certificado bancario, fecha 15/03/2025'
TextoBancoDos ==
    <<"C","E","R","T","I","F","I","C","A","C","I","O","N"," ","B","A","N","C","A","R","I","A",":"," ","e","l"," ","b","a","n","c","o"," ","e","m","i","t","e"," ","c","e","r","t","i","f","i","c","a","d","o"," ","b","a","n","c","a","r","i","o",","," ","f","e","c","h","a"," ","1","5","/","0","3","/","2","0","2","5">>

\* 'certificacion bancaria de la cuenta de ahorros expedida el 04/03/2025'
TextoBancoUno ==
    <<"c","e","r","t","i","f","i","c","a","c","i","o","n"," ","b","a","n","c","a","r","i","a"," ","d","e"," ","l","a"," ","c","u","e","n","t","a"," ","d","e"," ","a","h","o","r","r","o","s"," ","e","x","p","e","d","i","d","a"," ","e","l"," ","0","4","/","0","3","/","2","0","2","5">>

\* 'certificacion bancaria y certificado bancario de cuenta sin datos'
TextoBancoSinFecha ==
    <<"c","e","r","t","i","f","i","c","a","c","i","o","n"," ","b","a","n","c","a","r","i","a"," ","y"," ","c","e","r","t","i","f","i","c","a","d","o"," ","b","a","n","c","a","r","i","o"," ","d","e"," ","c","u","e","n","t","a"," ","s","i","n"," ","d","a","t","o","s">>

\* 'Carta de solicitud firmada por el representante legal de la sociedad'
TextoCarta ==
    <<"C","a","r","t","a"," ","d","e"," ","s","o","l","i","c","i","t","u","d"," ","f","i","r","m","a","d","a"," ","p","o","r"," ","e","l"," ","r","e","p","r","e","s","e","n","t","a","n","t","e"," ","l","e","g","a","l"," ","d","e"," ","l","a"," ","s","o","c","i","e","d","a","d">>

\* 'carta solicitud'
TextoCorto ==
    <<"c","a","r","t","a"," ","s","o","l","i","c","i","t","u","d">>

\* 'camara de comercio, certificado de existencia del 20/01/2025 al dia'
TextoCamara ==
    <<"c","a","m","a","r","a"," ","d","e"," ","c","o","m","e","r","c","i","o",","," ","c","e","r","t","i","f","i","c","a","d","o"," ","d","e"," ","e","x","i","s","t","e","n","c","i","a"," ","d","e","l"," ","2","0","/","0","1","/","2","0","2","5"," ","a","l"," ","d","i","a">>

\* 'copia rut y cedula de ciudadania del consorcio, acta consorcial firmada'
TextoVarios ==
    <<"c","o","p","i","a"," ","r","u","t"," ","y"," ","c","e","d","u","l","a"," ","d","e"," ","c","i","u","d","a","d","a","n","i","a"," ","d","e","l"," ","c","o","n","s","o","r","c","i","o",","," ","a","c","t","a"," ","c","o","n","s","o","r","c","i","a","l"," ","f","i","r","m","a","d","a">>

\* 'hoja en blanco del expediente general para revisar luego sin datos'
TextoNada ==
    <<"h","o","j","a"," ","e","n"," ","b","l","a","n","c","o"," ","d","e","l"," ","e","x","p","e","d","i","e","n","t","e"," ","g","e","n","e","r","a","l"," ","p","a","r","a"," ","r","e","v","i","s","a","r"," ","l","u","e","g","o"," ","s","i","n"," ","d","a","t","o","s">>

---------------------------------------------------------------------------
(* Inputs of the business-calendar specification                           *)

MaxDiasHabiles == 12
RangoInicio == 16

RECURSIVE SumarDias(_, _)
SumarDias(f, k) == IF k = 0 THEN f ELSE SumarDias(SiguienteDia(f), k - 1)

\* start dates: stretches that contain weekends and each kind of holiday
\* (mid-week, Monday, Sunday) and a stretch outside the holiday year
FechasBase ==
    { Fecha(2024, 12, 24), Fecha(2025, 4, 25), Fecha(2025, 7, 14),
      Fecha(2025, 12, 1), Fecha(2024, 2, 23) }

FechasInicio == { SumarDias(b, k) : b \in FechasBase, k \in 0..RangoInicio }

CalNinguna == [f |-> SinFecha, n |-> 0, r |-> SinFecha, hecho |-> FALSE]

LlamadaNinguna ==
    [op |-> "ninguna", tipo_devolucion |-> "", indice |-> 0,
     fecha_recepcion |-> None, peticionario_tipo |-> "",
     inferido |-> [nulo |-> TRUE, ids |-> <<>>], antes |-> <<>>]

RetornoNinguno ==
    [estado |-> "", archivos |-> Evidencia(<<>>), observaciones |-> <<>>]

CalInit ==
    /\ catalogos = CatalogosDelModulo
    /\ cal \in [f : FechasInicio, n : 0..MaxDiasHabiles, r : {SinFecha}, hecho : {FALSE}]
    /\ now = SinFecha
    /\ documentos = <<>>
    /\ llamada = LlamadaNinguna
    /\ retorno = RetornoNinguno
    /\ filas = <<>>

CalcularFechaLimite ==
    /\ ~cal.hecho
    /\ cal' = [cal EXCEPT !.r = fecha_limite_habiles(cal.f, cal.n), !.hecho = TRUE]
    /\ UNCHANGED <<now, documentos, llamada, retorno, filas, catalogos>>

CalNext == CalcularFechaLimite

SpecCal == CalInit /\ [][CalNext]_vars

\* Monday to Friday and not a holiday, stated on ordinals
OrdinalesFestivos == { toordinal(h) : h \in COLOMBIA_FESTIVOS }
OrdinalHabil(o) == (o + 6) % 7 \in 0..4 /\ o \notin OrdinalesFestivos

\* C2 as claimed: for every start date f and every n >= 0 the date returned by
\* fecha_limite_habiles(f, n) is a business day.
C2_Original ==
    cal.hecho => OrdinalHabil(toordinal(cal.r))

\* C2 amended: for every start date f and every n >= 1 the date returned by
\* fecha_limite_habiles(f, n) is a business day (Monday-Friday, not a holiday);
\* for n = 0 it is f itself, whatever day f is.
C2_LimiteEsHabil ==
    cal.hecho =>
        /\ cal.n >= 1 => OrdinalHabil(toordinal(cal.r))
        /\ cal.n = 0 => cal.r = cal.f

C2_Witness ==
    /\ cal.hecho /\ cal.n >= 1
    /\ \E k \in 1..3 : SumarDias(cal.f, k) \in COLOMBIA_FESTIVOS
    /\ weekday(cal.r) = 0

\* C3: for every start date f and every n >= 0 exactly n business days d satisfy
\* f < d <= fecha_limite_habiles(f, n); weekends and holidays in between are
\* skipped and not counted.
C3_ExactamenteNHabiles ==
    cal.hecho =>
        /\ toordinal(cal.r) >= toordinal(cal.f)
        /\ Cardinality({ o \in (toordinal(cal.f) + 1)..toordinal(cal.r) : OrdinalHabil(o) })
             = cal.n

C3_Witness ==
    /\ cal.hecho /\ cal.n >= 5
    /\ \E o \in (toordinal(cal.f) + 1)..toordinal(cal.r) : o \in OrdinalesFestivos
    /\ toordinal(cal.r) - toordinal(cal.f) > cal.n + 2

---------------------------------------------------------------------------
(* Inputs of the checklist-engine specification                            *)

MaxDocs == 2

Doc(texto, ocr_conf, firma_manuscrita, fecha_documento) ==
    [archivo |-> "solicitud.pdf", paginas |-> <<1>>, texto |-> texto,
     ocr_conf |-> ocr_conf, fecha_documento |-> fecha_documento,
     firma_manuscrita |-> firma_manuscrita]

\* letters: signed and unsigned, OCR confidence on either side of the
\* threshold of 30, and a text shorter than 40 characters
DocumentosCarta ==
    { Doc(TextoCarta, c, f, None) : c \in {29, 30}, f \in BOOLEAN }
    \cup { Doc(TextoCorto, 30, f, None) : f \in BOOLEAN }

\* documents for the items with a validity period; the stored dates are ISO
\* strings as the page pipeline writes them, one with its day at most 12
DocumentosVigencia ==
    { Doc(TextoBancoDos, 30, FALSE, None),
      Doc(TextoBancoDos, 29, FALSE, None),
      Doc(TextoBancoUno, 30, FALSE, None),
      Doc(TextoBancoSinFecha, 30, FALSE, None),
      Doc(TextoBancoSinFecha, 29, FALSE, None),
      Doc(TextoBancoSinFecha, 30, FALSE, isoformat(Fecha(2025, 3, 15))),
      Doc(TextoBancoSinFecha, 30, FALSE, isoformat(Fecha(2025, 3, 4))),
      Doc(TextoCamara, 30, FALSE, None),
      Doc(TextoCamara, 30, FALSE, isoformat(Fecha(2025, 3, 15))) }

DocumentosOtros ==
    { Doc(TextoVarios, 30, f, None) : f \in BOOLEAN } \cup { Doc(TextoNada, 30, FALSE, None) }

\* the last Document of a file is any of these
DocumentosMuestra == DocumentosCarta \cup DocumentosVigencia \cup DocumentosOtros

\* the Documents before the last one are among these
DocumentosPrevios ==
    { Doc(TextoBancoDos, 30, FALSE, None), Doc(TextoCarta, 29, TRUE, None),
      Doc(TextoNada, 30, FALSE, None) }

\* a file's Documents: consecutive pages, one page each
SecuenciasDocumentos ==
    { [i \in 1..n |-> [ (IF i = n THEN u ELSE p[i]) EXCEPT !.paginas = <<i>> ]] :
        n \in 1..MaxDocs, u \in DocumentosMuestra,
        p \in [1..(MaxDocs - 1) -> DocumentosPrevios] }
    \cup {<<>>}

TiposPeticionario == {"persona_juridica", "persona_natural", "consorcio"}

TiposDevolucion == {"misional", "no_misional"}

\* request contexts <<peticionario_tipo, fecha_recepcion_dt>>: every petitioner
\* type; the receipt dates are the last day of validity of a document issued
\* on 2025-03-04 and of one issued on 2025-03-15 (30 business days), and the
\* day after the latter, given as a date
Contextos ==
    { <<"persona_juridica", ObjDatetime(Fecha(2025, 4, 15))>>,
      <<"consorcio", ObjDatetime(Fecha(2025, 4, 25))>>,
      <<"persona_natural", ObjDate(Fecha(2025, 4, 26))>> }

\* archivo_inferido for item k: None, the item itself, another item
Inferidos(tipo_devolucion, k) ==
    { [nulo |-> TRUE, ids |-> <<>>],
      [nulo |-> FALSE, ids |-> <<CHECKLIST(tipo_devolucion)[k].id>>],
      [nulo |-> FALSE, ids |-> <<"recibos_pago_nm">>] }

FechasHoy == { Fecha(2025, 6, 2) }

MotorInit ==
    /\ catalogos = CatalogosDelModulo
    /\ cal = CalNinguna
    /\ now \in FechasHoy
    /\ documentos \in SecuenciasDocumentos
    /\ llamada = LlamadaNinguna
    /\ retorno = RetornoNinguno
    /\ filas = <<>>

EvaluarItem(tipo_devolucion, k, ctx, archivo_inferido) ==
    /\ llamada.op = "ninguna"
    /\ LET Recibir(r) ==
               /\ retorno' = [estado |-> r.estado, archivos |-> r.archivos,
                              observaciones |-> r.observaciones]
               /\ documentos' = r.documentos
       IN  Recibir(evaluar_item(CHECKLIST(tipo_devolucion)[k], documentos, ctx[2], ctx[1],
                                archivo_inferido, now))
    /\ llamada' = [op |-> "evaluar_item", tipo_devolucion |-> tipo_devolucion,
                   indice |-> k, fecha_recepcion |-> ctx[2],
                   peticionario_tipo |-> ctx[1], inferido |-> archivo_inferido,
                   antes |-> documentos]
    /\ UNCHANGED <<cal, now, filas, catalogos>>

EvalNext ==
    \E tipo_devolucion \in TiposDevolucion :
        \E k \in 1..Len(CHECKLIST(tipo_devolucion)) :
            \E ctx \in Contextos :
                \E archivo_inferido \in Inferidos(tipo_devolucion, k) :
                    EvaluarItem(tipo_devolucion, k, ctx, archivo_inferido)

SpecEval == MotorInit /\ [][EvalNext]_vars

---------------------------------------------------------------------------
(* generar_checklist run on the Documents of one file                      *)

\* the Documents a file is made of
DocumentosArchivo ==
    DocumentosPrevios
    \cup { Doc(TextoVarios, 30, TRUE, None),
           Doc(TextoBancoSinFecha, 30, FALSE, isoformat(Fecha(2025, 3, 4))),
           Doc(TextoBancoSinFecha, 30, FALSE, isoformat(Fecha(MAXYEAR, 12, 30))) }

SecuenciasArchivo ==
    { [i \in 1..n |-> [p[i] EXCEPT !.paginas = <<i>>]] :
        n \in 1..MaxDocs, p \in [1..MaxDocs -> DocumentosArchivo] }
    \cup {<<>>}

\* the receipt date as the callers hand it over: the str of the command line,
\* a date, a datetime
RecepcionesArchivo ==
    { ObjStr([n |-> <<2025, 4, 25>>, l |-> <<4, 2, 2>>]),
      ObjDate(Fecha(2025, 4, 25)),
      ObjDatetime(Fecha(2025, 4, 25)) }

\* allowed_item_ids: None, the empty list, ids out of catalog order and
\* repeated, a single id, an id of neither catalog
ConjuntosInferidos ==
    { [nulo |-> TRUE, ids |-> <<>>],
      [nulo |-> FALSE, ids |-> <<>>],
      [nulo |-> FALSE, ids |-> <<"cert_bancaria", "rut", "carta_representante", "rut">>],
      [nulo |-> FALSE, ids |-> <<"cert_bancaria_nm", "carta_peticionario">>],
      [nulo |-> FALSE, ids |-> <<"acta_consorcial">>],
      [nulo |-> FALSE, ids |-> <<"otro_documento">>] }

ChecklistInit ==
    /\ catalogos = CatalogosDelModulo
    /\ cal = CalNinguna
    /\ now \in FechasHoy
    /\ documentos \in SecuenciasArchivo
    /\ llamada = LlamadaNinguna
    /\ retorno = RetornoNinguno
    /\ filas = <<>>

GenerarChecklist(tipo_devolucion, fecha_recepcion_str, peticionario_tipo, allowed_item_ids) ==
    /\ llamada.op = "ninguna"
    /\ LET Recibir(r) ==
               /\ filas' = r.filas
               /\ documentos' = r.documentos
       IN  Recibir(generar_checklist(documentos, tipo_devolucion, fecha_recepcion_str,
                                     peticionario_tipo, allowed_item_ids, now))
    /\ llamada' = [op |-> "generar_checklist", tipo_devolucion |-> tipo_devolucion,
                   indice |-> 0, fecha_recepcion |-> fecha_recepcion_str,
                   peticionario_tipo |-> peticionario_tipo, inferido |-> allowed_item_ids,
                   antes |-> documentos]
    /\ catalogos' = CatalogosTrasChecklist(catalogos, tipo_devolucion, allowed_item_ids)
    /\ UNCHANGED <<cal, now, retorno>>

ChecklistNext ==
    \E tipo_devolucion \in TiposDevolucion :
        \E fecha_recepcion_str \in RecepcionesArchivo :
            \E peticionario_tipo \in {"persona_juridica", "consorcio"} :
                \E allowed_item_ids \in ConjuntosInferidos :
                    GenerarChecklist(tipo_devolucion, fecha_recepcion_str,
                                     peticionario_tipo, allowed_item_ids)

SpecChecklist == ChecklistInit /\ [][ChecklistNext]_vars

---------------------------------------------------------------------------
(* Properties of evaluar_item, read off the call made and what it returned *)

Evaluado == llamada.op = "evaluar_item"

ItemLlamado == CHECKLIST(llamada.tipo_devolucion)[llamada.indice]

\* the item is scoped to a petitioner type other than the one of the call
FueraDeAlcance ==
    \/ /\ ItemLlamado.id \in {"cedula_persona_natural", "cedula_persona_natural_nm"}
       /\ llamada.peticionario_tipo # "persona_natural"
    \/ /\ ItemLlamado.id = "acta_consorcial"
       /\ llamada.peticionario_tipo # "consorcio"
    \/ /\ ItemLlamado.id \in {"camara_comercio_nm", "rut_nm"}
       /\ llamada.peticionario_tipo = "persona_natural"

\* the item id is in the filename-inferred set of the call
EnConjuntoInferido ==
    /\ ~llamada.inferido.nulo
    /\ \E j \in 1..Len(llamada.inferido.ids) : llamada.inferido.ids[j] = ItemLlamado.id

\* the Documents handed to the call that reach the hit count asked of them
Suficientes ==
    { i \in 1..Len(llamada.antes) :
        Puntaje(ItemLlamado, llamada.antes[i]) >= (IF EnConjuntoInferido THEN 1 ELSE 2) }

\* the Documents returned as evidence, by their position
Aceptados ==
    { retorno.archivos.lista[j].paginas[1] : j \in 1..Len(retorno.archivos.lista) }

\* the last Document accepted, as the call received it
UltimoAceptado ==
    llamada.antes[retorno.archivos.lista[Len(retorno.archivos.lista)].paginas[1]]

BuenaLectura(doc) == doc.ocr_conf >= 30 /\ Len(strip(doc.texto)) >= 40

\* the validity decisions the call reported, each citing the issuance date
DecisionesVigencia ==
    { retorno.observaciones[j] : j \in
        { j \in 1..Len(retorno.observaciones) :
            retorno.observaciones[j].tag \in {"vigente", "vencido"} } }

UnSoloAceptadoConFecha ==
    /\ Evaluado
    /\ ItemLlamado.vigencia_dias # 0
    /\ Len(retorno.archivos.lista) = 1
    /\ BuenaLectura(UltimoAceptado)
    /\ DecisionesVigencia # {}

\* C1: an item with a validity window matched by a single Document that is
\* read well (confidence >= 30, stripped text >= 40 characters) and has a
\* resolved issuance date d is Complete when the receipt date is on or before
\* fecha_limite_habiles(d, vigencia_dias), the boundary day included, and
\* Missing when the receipt date is later.
C1_LimiteInclusivo ==
    UnSoloAceptadoConFecha =>
        \A o \in DecisionesVigencia :
            retorno.estado =
                IF toordinal(llamada.fecha_recepcion.f)
                     <= toordinal(fecha_limite_habiles(o.expedicion, ItemLlamado.vigencia_dias))
                THEN "C" ELSE "Falta"

\* the receipt date is the boundary day itself and the item is Complete
C1_Witness ==
    /\ UnSoloAceptadoConFecha
    /\ \E o \in DecisionesVigencia :
           llamada.fecha_recepcion.f =
               fecha_limite_habiles(o.expedicion, ItemLlamado.vigencia_dias)
    /\ retorno.estado = "C"

\* C4: for an item that passes the applicability gate, when no Document
\* reaches the evidence threshold the status is Missing if the item is
\* required and NotApplicable if it is not, and the evidence is null.
C4_SinEvidencia ==
    (Evaluado /\ ~FueraDeAlcance /\ Suficientes = {}) =>
        /\ retorno.estado = (IF ItemLlamado.requerido THEN "Falta" ELSE "N/A")
        /\ retorno.archivos.nulo

\* an optional item, Documents supplied, none of them sufficient
C4_Witness ==
    /\ Evaluado /\ ~FueraDeAlcance /\ Suficientes = {}
    /\ Len(llamada.antes) > 0
    /\ ~ItemLlamado.requerido
    /\ retorno.estado = "N/A"
    /\ retorno.archivos.nulo

\* an item with a validity window, one Document accepted and badly read
\* (confidence < 30 or stripped text < 40 characters), its validity decided
UnSoloAceptadoMalLeido ==
    /\ Evaluado
    /\ ItemLlamado.vigencia_dias # 0
    /\ Len(retorno.archivos.lista) = 1
    /\ ~BuenaLectura(UltimoAceptado)
    /\ DecisionesVigencia # {}

\* C5: the confidence override only downgrades Complete: with the matched
\* Document read at confidence < 30 or with fewer than 40 characters, a
\* validity decision of Complete becomes NeedsReview and a validity decision
\* of Missing (expired) stays Missing.
C5_Original ==
    UnSoloAceptadoMalLeido =>
        \A o \in DecisionesVigencia :
            retorno.estado = (IF o.tag = "vigente" THEN "Revision" ELSE "Falta")

\* the Documents of the call with every signature taken as detected
TodosFirmados ==
    [i \in 1..Len(llamada.antes) |-> [llamada.antes[i] EXCEPT !.firma_manuscrita = TRUE]]

\* the status of the same call had every Document carried a signature
EstadoFirmado ==
    evaluar_item(ItemLlamado, TodosFirmados, llamada.fecha_recepcion,
                 llamada.peticionario_tipo, llamada.inferido, now).estado

RequiereFirma ==
    ItemLlamado.id \in {"carta_representante", "carta_peticionario", "cert_contador"}

\* C6: for carta_representante, carta_peticionario and cert_contador, when
\* the matched Document has no detected signature a Complete status becomes
\* NeedsReview and any other status is left as it is; for every other item,
\* and for a signed Document, the signature flag does not change the status.
C6_SoloFirmaDegradaCompleto ==
    Evaluado =>
        IF /\ RequiereFirma
           /\ ~retorno.archivos.nulo
           /\ ~UltimoAceptado.firma_manuscrita
        THEN retorno.estado = (IF EstadoFirmado = "C" THEN "Revision" ELSE EstadoFirmado)
        ELSE retorno.estado = EstadoFirmado

\* a letter without signature that is otherwise Complete, reported NeedsReview
C6_Witness ==
    /\ Evaluado
    /\ RequiereFirma
    /\ ~retorno.archivos.nulo
    /\ ~UltimoAceptado.firma_manuscrita
    /\ BuenaLectura(UltimoAceptado)
    /\ retorno.estado = "Revision"

NotasFijas ==
    { "No aplica para persona natural",
      "Aplica solo si peticionario es persona natural",
      "Aplica solo si peticionario es consorcio/union temporal" }

\* C7: the applicability gate is terminal: for an item scoped to a petitioner
\* type other than the one of the call (the cedula items unless natural
\* person, acta_consorcial unless consortium, camara_comercio_nm and rut_nm
\* for a natural person) evaluar_item returns NotApplicable with null
\* evidence and one fixed note, whatever the Documents, and leaves every
\* Document as it was.
C7_FiltroTerminal ==
    (Evaluado /\ FueraDeAlcance) =>
        /\ retorno.estado = "N/A"
        /\ retorno.archivos.nulo
        /\ Len(retorno.observaciones) = 1
        /\ retorno.observaciones[1].tag \in NotasFijas
        /\ documentos = llamada.antes

\* an item out of scope although a Document holds enough of its keywords
C7_Witness ==
    /\ Evaluado /\ FueraDeAlcance
    /\ Suficientes # {}
    /\ retorno.estado = "N/A"
    /\ retorno.archivos.nulo

\* C8: in the evidence search a Document is accepted as evidence if and only
\* if the number of the item's keywords found in its text, ignoring case, is
\* at least 1 when the item id is in the filename-inferred set and at least
\* 2 when it is not, no inferred set included.
C8_UmbralAdaptativo ==
    (Evaluado /\ ~FueraDeAlcance) => Aceptados = Suficientes

\* one Document with a single hit: rejected where the item is not inferred
C8_Witness ==
    /\ Evaluado /\ ~FueraDeAlcance
    /\ ~EnConjuntoInferido
    /\ \E i \in 1..Len(llamada.antes) :
           /\ Puntaje(ItemLlamado, llamada.antes[i]) = 1
           /\ i \notin Aceptados
    /\ Aceptados = Suficientes

\* the accepted Documents that carry no issuance date and in whose text the
\* date extraction finds none
AceptadosSinFecha ==
    { i \in Aceptados :
        /\ llamada.antes[i].fecha_documento = None
        /\ extraer_fecha_mejorada(llamada.antes[i].texto,
                                  ItemLlamado.id \in {"cert_bancaria", "cert_bancaria_nm"},
                                  now) = SinFecha }

\* C9: for an item with a validity window, a matched Document without an
\* issuance date and with no date to extract from its text gives NeedsReview
\* with the date-not-found observation, never Complete or Missing.
C9_SinFechaRevision ==
    (Evaluado /\ ItemLlamado.vigencia_dias # 0 /\ AceptadosSinFecha # {}) =>
        /\ \E j \in 1..Len(retorno.observaciones) : retorno.observaciones[j].tag = "sin_fecha"
        /\ retorno.archivos.lista[Len(retorno.archivos.lista)].paginas[1] \in AceptadosSinFecha
             => retorno.estado = "Revision"

\* a well-read certificate without any date, reported NeedsReview
C9_Witness ==
    /\ Evaluado /\ ItemLlamado.vigencia_dias # 0
    /\ Len(retorno.archivos.lista) = 1
    /\ AceptadosSinFecha # {}
    /\ BuenaLectura(UltimoAceptado)
    /\ retorno.estado = "Revision"

---------------------------------------------------------------------------
(* Properties of generar_checklist                                         *)

Generado == llamada.op = "generar_checklist"

CatalogoActivo == CHECKLIST(llamada.tipo_devolucion)

\* position of an id in the active catalog, 0 when it is not there
PosicionEnCatalogo(id) ==
    IF \E k \in 1..Len(CatalogoActivo) : CatalogoActivo[k].id = id
    THEN CHOOSE k \in 1..Len(CatalogoActivo) : CatalogoActivo[k].id = id
    ELSE 0

\* an inferred id set was given: not None and not empty
HayConjuntoInferido == ~llamada.inferido.nulo /\ Len(llamada.inferido.ids) > 0

\* the ids of the items that are to be evaluated
IdsPorEvaluar ==
    IF HayConjuntoInferido
    THEN { CatalogoActivo[k].id : k \in 1..Len(CatalogoActivo) }
           \cap { llamada.inferido.ids[j] : j \in 1..Len(llamada.inferido.ids) }
    ELSE { CatalogoActivo[k].id : k \in 1..Len(CatalogoActivo) }

\* C10: generar_checklist returns one row per evaluated item, in catalog
\* order and without duplicates: every item of the active catalog when no
\* inferred id set is given, exactly the catalog items whose id is in the
\* inferred set otherwise.
C10_UnaFilaPorItem ==
    Generado =>
        /\ { filas[a].ItemID : a \in 1..Len(filas) } = IdsPorEvaluar
        /\ \A a, b \in 1..Len(filas) :
               a < b => PosicionEnCatalogo(filas[a].ItemID) < PosicionEnCatalogo(filas[b].ItemID)

\* an inferred set given out of catalog order and with a repeated id
C10_Witness ==
    /\ Generado
    /\ llamada.inferido.ids = <<"cert_bancaria", "rut", "carta_representante", "rut">>
    /\ llamada.tipo_devolucion = "misional"
    /\ Len(filas) = 3
    /\ filas[1].ItemID = "carta_representante"

---------------------------------------------------------------------------
(* DocumentClassifier: clasificar_documento_robusto                        *)

\* str.replace of the five accented lower-case vowels
SinAcento(c) ==
    CASE c = "a'" -> "a" [] c = "e'" -> "e" [] c = "i'" -> "i"
      [] c = "o'" -> "o" [] c = "u'" -> "u" [] OTHER -> c

ReemplazarAcentos(t) == [i \in 1..Len(t) |-> SinAcento(t[i])]

\* re.sub(r'[^\w\s]', ' ', t): the underscore is a word character and stays
PuntuacionAEspacio(t) ==
    [i \in 1..Len(t) |-> IF EsPalabra(t[i]) \/ t[i] \in Espacios THEN t[i] ELSE " "]

\* re.sub(r'\s+', ' ', t): every run of whitespace becomes one blank
ColapsarEspacios(t) ==
    LET marcado == [i \in 1..Len(t) |->
                      [c |-> IF t[i] \in Espacios THEN " " ELSE t[i],
                       queda |-> t[i] \notin Espacios \/ i = 1 \/ t[i - 1] \notin Espacios]]
        Queda(x) == x.queda
        Quitar(m) == [i \in 1..Len(m) |-> m[i].c]
    IN  Quitar(SelectSeq(marcado, Queda))

\* the combined text: file name, a blank and the OCR text, normalised
TextoCompleto(nombre_archivo, texto_ocr) ==
    strip(ColapsarEspacios(PuntuacionAEspacio(ReemplazarAcentos(
        lower(nombre_archivo \o <<" ">> \o texto_ocr)))))

\* keyword.lower() with the accents replaced
ClaveNormalizada(keyword) == ReemplazarAcentos(lower(keyword))

\* str.split(): the positions where a word starts, and the words
IniciosDePalabra(t) ==
    { i \in 1..Len(t) : t[i] \notin Espacios /\ (i = 1 \/ t[i - 1] \in Espacios) }

Palabras(t) ==
    { SubSeq(t, i, FinCorrida(t, i, { t[j] : j \in 1..Len(t) } \ Espacios) - 1) :
        i \in IniciosDePalabra(t) }

\* mutant: a keyword counts only where it stands as a whole word
EnTextoPalabraEntera(clave, texto) ==
    \E i \in 1..(Len(texto) - Len(clave) + 1) :
        /\ \A j \in 1..Len(clave) : texto[i + j - 1] = clave[j]
        /\ i = 1 \/ ~EsPalabra(texto[i - 1])
        /\ i + Len(clave) > Len(texto) \/ ~EsPalabra(texto[i + Len(clave)])

\* the substring test "clave in texto"
EnTexto(clave, texto) == Contiene(texto, clave)

\* what one keyword adds to the score of its type
PuntosClave(keyword, nombre_minusculas, texto_completo) ==
    LET Puntos(clave) ==
            (IF EnTexto(clave, nombre_minusculas) THEN 3 ELSE 0)
          + (IF EnTexto(clave, texto_completo) THEN 1 ELSE 0)
          + (IF /\ Cardinality(IniciosDePalabra(clave)) > 1
                /\ \A palabra \in Palabras(clave) : EnTexto(palabra, texto_completo)
             THEN 2 ELSE 0)
    IN  Puntos(ClaveNormalizada(keyword))

RECURSIVE SumaPuntos(_, _, _, _)
SumaPuntos(keywords, i, nombre_minusculas, texto_completo) ==
    IF i > Len(keywords) THEN 0
    ELSE PuntosClave(keywords[i], nombre_minusculas, texto_completo)
           + SumaPuntos(keywords, i + 1, nombre_minusculas, texto_completo)

\* scores[doc_type], in the order of declaration of DOC_KEYWORDS
PuntajesPorTipo(nombre_archivo, texto_ocr) ==
    LET Calcular(nombre_minusculas, texto_completo) ==
            [k \in 1..Len(DOC_KEYWORDS) |->
                SumaPuntos(DOC_KEYWORDS[k].keywords, 1, nombre_minusculas, texto_completo)]
    IN  Calcular(lower(nombre_archivo), TextoCompleto(nombre_archivo, texto_ocr))

MaximoDe(scores) ==
    CHOOSE v \in { scores[k] : k \in 1..Len(scores) } : \A k \in 1..Len(scores) : scores[k] <= v

\* mutant: among the types with the highest score the last declared wins
UltimoMaximo(scores) ==
    CHOOSE k \in 1..Len(scores) :
        /\ scores[k] = MaximoDe(scores)
        /\ \A j \in (k + 1)..Len(scores) : scores[j] < scores[k]

\* max(scores, key=scores.get): the first key, in insertion order, with the
\* highest score
PrimerMaximo(scores) ==
    CHOOSE k \in 1..Len(scores) :
        /\ scores[k] = MaximoDe(scores)
        /\ \A j \in 1..(k - 1) : scores[j] < scores[k]

\* clasificar_documento_robusto: the type returned, with the scores it was
\* chosen from
clasificar_documento_robusto(nombre_archivo, texto_ocr) ==
    LET Elegir(scores) ==
            [tipo |-> IF MaximoDe(scores) = 0 THEN "otro"
                      ELSE DOC_KEYWORDS[PrimerMaximo(scores)].tipo,
             scores |-> scores]
    IN  Elegir(PuntajesPorTipo(nombre_archivo, texto_ocr))

clasificar_pagina(nombre_archivo, texto) == clasificar_documento_robusto(nombre_archivo, texto)

---------------------------------------------------------------------------
(* File names and page texts                                               *)

\* 'certificacion_bancaria_empresa.pdf'
NombreBancaria ==
    <<"c","e","r","t","i","f","i","c","a","c","i","o","n","_","b","a","n","c","a","r","i","a","_","e","m","p","r","e","s","a",".","p","d","f">>

\* 'Resolucio'n banco.pdf'
NombreResolucionBanco ==
    <<"R","e","s","o","l","u","c","i","o'","n"," ","b","a","n","c","o",".","p","d","f">>

\* 'carta-de-solicitud.pdf'
NombreCartaGuiones ==
    <<"c","a","r","t","a","-","d","e","-","s","o","l","i","c","i","t","u","d",".","p","d","f">>

\* 'rut.pdf'
NombreRut ==
    <<"r","u","t",".","p","d","f">>

\* 'contrato consorcio.pdf'
NombreContratoConsorcio ==
    <<"c","o","n","t","r","a","t","o"," ","c","o","n","s","o","r","c","i","o",".","p","d","f">>

\* 'scan001.pdf'
NombreEscaneo ==
    <<"s","c","a","n","0","0","1",".","p","d","f">>

\* ''
NombreVacio ==
    <<>>

\* 'RUT Camara de Comercio.pdf'
NombreRutCamara ==
    <<"R","U","T"," ","C","a","m","a","r","a"," ","d","e"," ","C","o","m","e","r","c","i","o",".","p","d","f">>

\* 'expediente completo rut.pdf'
NombreCompletoRut ==
    <<"e","x","p","e","d","i","e","n","t","e"," ","c","o","m","p","l","e","t","o"," ","r","u","t",".","p","d","f">>

\* 'rut anexos.pdf'
NombreRutAnexos ==
    <<"r","u","t"," ","a","n","e","x","o","s",".","p","d","f">>

\* ''
PaginaVacia ==
    <<>>

\* 'rut'
PaginaRut ==
    <<"r","u","t">>

\* 'banco recibo'
PaginaBancoRecibo ==
    <<"b","a","n","c","o"," ","r","e","c","i","b","o">>

\* 'Carta de solicitud firmada por el representante legal de la sociedad'
PaginaCarta ==
    <<"C","a","r","t","a"," ","d","e"," ","s","o","l","i","c","i","t","u","d"," ","f","i","r","m","a","d","a"," ","p","o","r"," ","e","l"," ","r","e","p","r","e","s","e","n","t","a","n","t","e"," ","l","e","g","a","l"," ","d","e"," ","l","a"," ","s","o","c","i","e","d","a","d">>

\* 'contrato de union temporal'
PaginaUnionTemporal ==
    <<"c","o","n","t","r","a","t","o"," ","d","e"," ","u","n","i","o","n"," ","t","e","m","p","o","r","a","l">>

\* 'hoja en blanco del expediente general para revisar luego sin datos'
PaginaEnBlanco ==
    <<"h","o","j","a"," ","e","n"," ","b","l","a","n","c","o"," ","d","e","l"," ","e","x","p","e","d","i","e","n","t","e"," ","g","e","n","e","r","a","l"," ","p","a","r","a"," ","r","e","v","i","s","a","r"," ","l","u","e","g","o"," ","s","i","n"," ","d","a","t","o","s">>

\* 'Ca'mara de Comercio: certificado de existencia'
PaginaCamara ==
    <<"C","a'","m","a","r","a"," ","d","e"," ","C","o","m","e","r","c","i","o",":"," ","c","e","r","t","i","f","i","c","a","d","o"," ","d","e"," ","e","x","i","s","t","e","n","c","i","a">>

\* 'RESOLUCIO'N  No. 12\nacto administrativo'
PaginaResolucion ==
    <<"R","E","S","O","L","U","C","I","O'","N"," "," ","N","o","."," ","1","2","\n","a","c","t","o"," ","a","d","m","i","n","i","s","t","r","a","t","i","v","o">>

\* 'CERTIFICACION BANCARIA: el banco emite certificado bancario, fecha 15/03/2025'
PaginaBanco ==
    <<"C","E","R","T","I","F","I","C","A","C","I","O","N"," ","B","A","N","C","A","R","I","A",":"," ","e","l"," ","b","a","n","c","o"," ","e","m","i","t","e"," ","c","e","r","t","i","f","i","c","a","d","o"," ","b","a","n","c","a","r","i","o",","," ","f","e","c","h","a"," ","1","5","/","0","3","/","2","0","2","5">>

\* 'legal representante'
PaginaLegalRepresentante ==
    <<"l","e","g","a","l"," ","r","e","p","r","e","s","e","n","t","a","n","t","e">>

NombresArchivo ==
    { NombreBancaria, NombreResolucionBanco, NombreCartaGuiones, NombreRut,
      NombreContratoConsorcio, NombreEscaneo, NombreVacio, NombreRutCamara,
      NombreCompletoRut, NombreRutAnexos }

TextosPagina ==
    { PaginaVacia, PaginaRut, PaginaBancoRecibo, PaginaCarta, PaginaUnionTemporal,
      PaginaEnBlanco, PaginaCamara, PaginaResolucion, PaginaBanco,
      PaginaLegalRepresentante }

---------------------------------------------------------------------------
(* The classifier applied to one page                                      *)

ClasificarInit ==
    /\ catalogos = CatalogosDelModulo
    /\ cal = CalNinguna
    /\ now \in FechasHoy
    /\ documentos = <<>>
    /\ llamada \in [op : {"por_clasificar"}, nombre_archivo : NombresArchivo,
                    texto : TextosPagina]
    /\ retorno = RetornoNinguno
    /\ filas = <<>>

ClasificarPagina ==
    /\ llamada.op = "por_clasificar"
    /\ retorno' = clasificar_pagina(llamada.nombre_archivo, llamada.texto)
    /\ llamada' = [llamada EXCEPT !.op = "clasificar_pagina"]
    /\ UNCHANGED <<cal, now, documentos, filas, catalogos>>

ClasificarNext == ClasificarPagina

SpecClasificar == ClasificarInit /\ [][ClasificarNext]_vars

---------------------------------------------------------------------------
(* Properties of the classifier                                            *)

Clasificado == llamada.op = "clasificar_pagina"

\* the file name alone, normalised as the combined text is
NombreNormalizado == TextoCompleto(llamada.nombre_archivo, <<>>)

TextoCombinado == TextoCompleto(llamada.nombre_archivo, llamada.texto)

\* the keywords of type k, normalised, that satisfy a test (each entry of
\* the list counts, also where two entries normalise to the same keyword)
ClavesDe(k) == [i \in 1..Len(DOC_KEYWORDS[k].keywords) |->
                    ClaveNormalizada(DOC_KEYWORDS[k].keywords[i])]

EnNombre(clave) == Contiene(NombreNormalizado, clave)

EnCombinado(clave) == Contiene(TextoCombinado, clave)

VariasPalabrasTodasPresentes(clave) ==
    /\ Cardinality(IniciosDePalabra(clave)) > 1
    /\ \A palabra \in Palabras(clave) : Contiene(TextoCombinado, palabra)

\* 3 x keywords in the normalised file name + 1 x keywords in the combined
\* text + 2 x multi-word keywords with all their words in the combined text
PuntajeDeclarado(k) ==
      3 * Len(SelectSeq(ClavesDe(k), EnNombre))
    + Len(SelectSeq(ClavesDe(k), EnCombinado))
    + 2 * Len(SelectSeq(ClavesDe(k), VariasPalabrasTodasPresentes))

TipoDevuelto ==
    IF retorno.tipo = "otro" THEN 0
    ELSE CHOOSE k \in 1..Len(DOC_KEYWORDS) : DOC_KEYWORDS[k].tipo = retorno.tipo

\* C16: with file name and text both normalised, the score of each type is
\* 3 x (its keywords found in the file name) + 1 x (its keywords found in the
\* combined text) + 2 x (its multi-word keywords whose words are all in the
\* combined text); the type returned has the highest score, and it is
\* 'otro' when every score is 0.
C16_Original ==
    Clasificado =>
        /\ \A k \in 1..Len(DOC_KEYWORDS) : retorno.scores[k] = PuntajeDeclarado(k)
        /\ IF \A k \in 1..Len(DOC_KEYWORDS) : PuntajeDeclarado(k) = 0
           THEN retorno.tipo = "otro"
           ELSE /\ TipoDevuelto # 0
                /\ \A k \in 1..Len(DOC_KEYWORDS) :
                       PuntajeDeclarado(k) <= PuntajeDeclarado(TipoDevuelto)

OrdenTaxonomia ==
    << "carta", "rut", "camara_comercio", "cert_bancaria", "recibo_pago",
       "resolucion", "tarjeta_profesional", "acta_consorcial", "contrato" >>

\* the types that reach the highest score
TiposConMaximo ==
    { k \in 1..Len(retorno.scores) : retorno.scores[k] = MaximoDe(retorno.scores) }

\* C17: when several types share the highest positive score the classifier
\* returns the one declared first in the taxonomy order carta, rut,
\* camara_comercio, cert_bancaria, recibo_pago, resolucion,
\* tarjeta_profesional, acta_consorcial, contrato; the type returned is the
\* value of a function of (file name, text).
C17_PrimeroDeclaradoGana ==
    Clasificado =>
        /\ [k \in 1..Len(DOC_KEYWORDS) |-> DOC_KEYWORDS[k].tipo] = OrdenTaxonomia
        /\ MaximoDe(retorno.scores) > 0 =>
               /\ TipoDevuelto \in TiposConMaximo
               /\ \A k \in TiposConMaximo : TipoDevuelto <= k
               /\ retorno.tipo = OrdenTaxonomia[TipoDevuelto]
        /\ retorno = clasificar_documento_robusto(llamada.nombre_archivo, llamada.texto)

\* two types tie at a positive score and the earlier one is returned
C17_Witness ==
    /\ Clasificado
    /\ MaximoDe(retorno.scores) > 0
    /\ Cardinality(TiposConMaximo) >= 2
    /\ \A k \in TiposConMaximo : TipoDevuelto <= k

\* C18: the page with file name "certificacion_bancaria_empresa.pdf" and
\* empty OCR text is classified cert_bancaria: the file name alone, its words
\* joined by underscores, gives that type the highest score.
C18_NombreBancariaBasta ==
    (Clasificado /\ llamada.nombre_archivo = NombreBancaria /\ llamada.texto = <<>>) =>
        /\ retorno.tipo = "cert_bancaria"
        /\ \A k \in 1..Len(DOC_KEYWORDS) :
               DOC_KEYWORDS[k].tipo # "cert_bancaria" => retorno.scores[k] < retorno.scores[4]

\* that page classified, with a positive score for the bank certificate only
C18_Witness ==
    /\ Clasificado
    /\ llamada.nombre_archivo = NombreBancaria
    /\ llamada.texto = <<>>
    /\ retorno.tipo = "cert_bancaria"
    /\ retorno.scores[4] > 0

---------------------------------------------------------------------------
(* PageAggregator: agrupar_paginas_en_documentos                           *)
(* A page is a record [archivo, pagina, texto, ocr_conf, tipo_detectado,   *)
(* nit_o_cedula, fecha_documento, firma_manuscrita]; the identity number   *)
(* is the text of its digits, <<>> standing for None.                      *)

RECURSIVE Suma(_, _)
Suma(xs, i) == IF i > Len(xs) THEN 0 ELSE xs[i] + Suma(xs, i + 1)

\* float(np.mean(ocr_confs)), 0.0 for an empty list; the confidences of the
\* pages are multiples of 60, so that the mean of up to six of them is whole
Media(ocr_confs) == IF ocr_confs = <<>> THEN 0 ELSE Suma(ocr_confs, 1) \div Len(ocr_confs)

\* p.get("tipo_detectado") or "otro"
TipoDePagina(p) == IF p.tipo_detectado = "" THEN "otro" ELSE p.tipo_detectado

\* the run opened by page p
AbrirCorrida(p) ==
    [archivo |-> p.archivo, paginas |-> <<p.pagina>>, texto |-> p.texto,
     ocr_confs |-> <<p.ocr_conf>>, tipo_detectado |-> TipoDePagina(p),
     nit_o_cedula |-> p.nit_o_cedula, fecha_documento |-> p.fecha_documento,
     firma_manuscrita |-> p.firma_manuscrita]

\* mutant: the date and the identity number of the page replace those of the run
ExtenderCorridaUltimo(current, p) ==
    [current EXCEPT
        !.paginas = Append(@, p.pagina),
        !.texto = @ \o <<"\n", "\n">> \o p.texto,
        !.ocr_confs = Append(@, p.ocr_conf),
        !.nit_o_cedula = p.nit_o_cedula,
        !.fecha_documento = p.fecha_documento,
        !.firma_manuscrita = @ \/ p.firma_manuscrita]

\* page p joins the current run
ExtenderCorrida(current, p) ==
    [current EXCEPT
        !.paginas = Append(@, p.pagina),
        !.texto = @ \o <<"\n", "\n">> \o p.texto,
        !.ocr_confs = Append(@, p.ocr_conf),
        !.nit_o_cedula = IF @ = <<>> /\ p.nit_o_cedula # <<>> THEN p.nit_o_cedula ELSE @,
        !.fecha_documento = IF @ = None /\ p.fecha_documento # None
                            THEN p.fecha_documento ELSE @,
        !.firma_manuscrita = @ \/ p.firma_manuscrita]

\* the Document a finished run is emitted as
EmitirDocumento(current) ==
    [archivo |-> current.archivo, paginas |-> current.paginas, texto |-> current.texto,
     ocr_conf |-> Media(current.ocr_confs), tipo_detectado |-> current.tipo_detectado,
     nit_o_cedula |-> current.nit_o_cedula, fecha_documento |-> current.fecha_documento,
     firma_manuscrita |-> current.firma_manuscrita]

\* mutant: a page always joins the run of the page before it
MismaCorridaSiempre(current, p) == TRUE

\* the page continues the current run
MismaCorrida(current, p) == TipoDePagina(p) = current.tipo_detectado

\* the loop over the pages from the i-th on, the run being built in current
RECURSIVE AgruparDesde(_, _, _, _)
AgruparDesde(paginas_info, i, current, documentos_hechos) ==
    IF i > Len(paginas_info)
    THEN Append(documentos_hechos, EmitirDocumento(current))
    ELSE IF MismaCorrida(current, paginas_info[i])
         THEN AgruparDesde(paginas_info, i + 1,
                           ExtenderCorrida(current, paginas_info[i]), documentos_hechos)
         ELSE AgruparDesde(paginas_info, i + 1, AbrirCorrida(paginas_info[i]),
                           Append(documentos_hechos, EmitirDocumento(current)))

agrupar_paginas_en_documentos(paginas_info) ==
    IF paginas_info = <<>> THEN <<>>
    ELSE AgruparDesde(paginas_info, 2, AbrirCorrida(paginas_info[1]), <<>>)

---------------------------------------------------------------------------
(* The aggregation applied to the pages of one file                        *)

MaxPaginas == 3

\* the kinds of page: two types and the catch-all type, given and defaulted,
\* with and without identity number, issuance date and signature
Pagina(tipo_detectado, texto, ocr_conf, nit_o_cedula, fecha_documento, firma_manuscrita) ==
    [archivo |-> "solicitud.pdf", pagina |-> 0, texto |-> texto, ocr_conf |-> ocr_conf,
     tipo_detectado |-> tipo_detectado, nit_o_cedula |-> nit_o_cedula,
     fecha_documento |-> fecha_documento, firma_manuscrita |-> firma_manuscrita]

ClasesDePagina ==
    { Pagina("carta", <<"a">>, 60, <<>>, None, FALSE),
      Pagina("carta", <<"b">>, 0, <<"9", "0", "0", "1", "2", "3", "4", "5", "6">>,
             isoformat(Fecha(2025, 3, 4)), TRUE),
      Pagina("rut", <<"c">>, 60, <<"8", "0", "0", "6", "5", "4", "3", "2", "1">>, None, FALSE),
      Pagina("rut", <<>>, 0, <<>>, isoformat(Fecha(2025, 3, 15)), FALSE),
      Pagina("", <<"e">>, 60, <<>>, None, TRUE),
      Pagina("otro", <<"f">>, 0, <<>>, None, FALSE) }

\* the pages of a file, numbered from 1 in their order
SecuenciasPaginas ==
    UNION { { [i \in 1..n |-> [p[i] EXCEPT !.pagina = i]] : p \in [1..n -> ClasesDePagina] } :
              n \in 0..MaxPaginas }

AgruparInit ==
    /\ catalogos = CatalogosDelModulo
    /\ cal = CalNinguna
    /\ now \in FechasHoy
    /\ documentos = <<>>
    /\ llamada \in [op : {"por_agrupar"}, paginas_info : SecuenciasPaginas]
    /\ retorno = RetornoNinguno
    /\ filas = <<>>

AgruparPaginas ==
    /\ llamada.op = "por_agrupar"
    /\ documentos' = agrupar_paginas_en_documentos(llamada.paginas_info)
    /\ llamada' = [llamada EXCEPT !.op = "agrupar_paginas_en_documentos"]
    /\ UNCHANGED <<cal, now, retorno, filas, catalogos>>

AgruparNext == AgruparPaginas

SpecAgrupar == AgruparInit /\ [][AgruparNext]_vars

---------------------------------------------------------------------------
(* Properties of the aggregation                                           *)

Agrupado == llamada.op = "agrupar_paginas_en_documentos"

RECURSIVE Concatenar(_, _)
Concatenar(listas, i) ==
    IF i > Len(listas) THEN <<>> ELSE listas[i] \o Concatenar(listas, i + 1)

\* the page numbers of the Documents, one list after the other
PaginasEmitidas == Concatenar([k \in 1..Len(documentos) |-> documentos[k].paginas], 1)

\* the type of the page with a given number, "otro" where the page has none
TipoDeLaPagina(n) == TipoDePagina(llamada.paginas_info[n])

\* C19: agrupar_paginas_en_documentos cuts the pages into maximal runs of
\* one type: the page lists of the Documents, one after the other, are the
\* input page sequence (no page lost, repeated or moved), all pages of a
\* Document have the type of the Document, and two Documents in a row have
\* different types.
C19_CorridasMaximas ==
    Agrupado =>
        /\ PaginasEmitidas = [i \in 1..Len(llamada.paginas_info) |-> llamada.paginas_info[i].pagina]
        /\ \A k \in 1..Len(documentos) :
               /\ documentos[k].paginas # <<>>
               /\ \A j \in 1..Len(documentos[k].paginas) :
                      TipoDeLaPagina(documentos[k].paginas[j]) = documentos[k].tipo_detectado
        /\ \A k \in 1..(Len(documentos) - 1) :
               documentos[k].tipo_detectado # documentos[k + 1].tipo_detectado

\* the pages carta, carta, rut give two Documents, pages 1,2 and page 3
C19_Witness ==
    /\ Agrupado
    /\ Len(llamada.paginas_info) = 3
    /\ [i \in 1..3 |-> llamada.paginas_info[i].tipo_detectado] = <<"carta", "carta", "rut">>
    /\ Len(documentos) = 2
    /\ documentos[1].paginas = <<1, 2>>
    /\ documentos[2].paginas = <<3>>

---------------------------------------------------------------------------
(* TextNormalizer: normalizar_texto                                        *)
(* The en dash is the character "en-dash".                                 *)

\* the literal lit stands in t from position q on
Coincide(t, q, lit) ==
    /\ q >= 1
    /\ q + Len(lit) - 1 <= Len(t)
    /\ \A j \in 1..Len(lit) : t[q + j - 1] = lit[j]

\* where '.' stops matching: the first line feed from p on, or the end
FinDeLinea(t, p) == Menor({ i \in p..Len(t) : t[i] = "\n" } \cup {Len(t) + 1})

\* \b before position q, \b after the word that ends before position f
LimiteAntes(t, q) == q = 1 \/ ~EsPalabra(t[q - 1])

LimiteDespues(t, f) == f > Len(t) \/ ~EsPalabra(t[f])

\* re.sub over the matches <<first, last>> of a pattern, taken from left to
\* right without overlap, each replaced by reemplazo
RECURSIVE ReemplazarTramos(_, _, _, _)
ReemplazarTramos(t, tramos, p, reemplazo) ==
    LET Seguir(desde) ==
            IF desde = {} THEN SubSeq(t, p, Len(t))
            ELSE LET Tomar(tramo) ==
                         SubSeq(t, p, tramo[1] - 1) \o reemplazo
                           \o ReemplazarTramos(t, tramos, tramo[2] + 1, reemplazo)
                 IN  Tomar(CHOOSE x \in desde : \A z \in desde : x[1] <= z[1])
    IN  Seguir({ x \in tramos : x[1] >= p })

\* r'\.pdf'
TramosPdf(t) ==
    { <<q, q + 3>> : q \in { q \in 1..Len(t) : Coincide(t, q, <<".", "p", "d", "f">>) } }

\* r'\b\d{1,2}\-mail\b.*'
TramosMail(t) ==
    LET Fin(q) == FinCorrida(t, q, Digitos)
        Vale(q) == /\ t[q] \in Digitos
                   /\ LimiteAntes(t, q)
                   /\ Fin(q) - q \in 1..2
                   /\ Coincide(t, Fin(q), <<"-", "m", "a", "i", "l">>)
                   /\ LimiteDespues(t, Fin(q) + 5)
    IN  { <<q, FinDeLinea(t, Fin(q) + 5) - 1>> : q \in { q \in 1..Len(t) : Vale(q) } }

\* r'\s*[-\|en-dash]\s*no\..*'
TramosNo(t) ==
    LET Sep(q) == FinCorrida(t, q, Espacios)
        Lit(q) == FinCorrida(t, Sep(q) + 1, Espacios)
        Vale(q) == /\ Sep(q) <= Len(t)
                   /\ t[Sep(q)] \in {"-", "|", "en-dash"}
                   /\ Coincide(t, Lit(q), <<"n", "o", ".">>)
    IN  { <<q, FinDeLinea(t, Lit(q) + 3) - 1>> : q \in { q \in 1..Len(t) : Vale(q) } }

\* r'\s*\bnis\b.*'
TramosNis(t) ==
    LET Ini(q) == FinCorrida(t, q, Espacios)
        Vale(q) == /\ Coincide(t, Ini(q), <<"n", "i", "s">>)
                   /\ LimiteAntes(t, Ini(q))
                   /\ LimiteDespues(t, Ini(q) + 3)
    IN  { <<q, FinDeLinea(t, Ini(q) + 3) - 1>> : q \in { q \in 1..Len(t) : Vale(q) } }

\* r'\s*\bradicad[oa]?\b.*'
TramosRadicado(t) ==
    LET Ini(q) == FinCorrida(t, q, Espacios)
        Tras(q) == Ini(q) + 7
        ConVocal(q) == /\ Tras(q) <= Len(t)
                       /\ t[Tras(q)] \in {"o", "a"}
                       /\ LimiteDespues(t, Tras(q) + 1)
        Vale(q) == /\ Coincide(t, Ini(q), <<"r", "a", "d", "i", "c", "a", "d">>)
                   /\ LimiteAntes(t, Ini(q))
                   /\ ConVocal(q) \/ LimiteDespues(t, Tras(q))
    IN  { <<q, FinDeLinea(t, IF ConVocal(q) THEN Tras(q) + 1 ELSE Tras(q)) - 1>> :
            q \in { q \in 1..Len(t) : Vale(q) } }

PalabrasDeCorte ==
    { <<"a", "n", "e", "x", "o", "s">>,
      <<"r", "e", "s", "p", "u", "e", "s", "t", "a", "s">>,
      <<"i", "n", "t", "e", "r", "n", "a", "s">> }

\* r'\b(anexos|respuestas|internas)\b.*'
TramosAnexos(t) ==
    { <<x[1], FinDeLinea(t, x[1] + Len(x[2])) - 1>> :
        x \in { x \in (1..Len(t)) \X PalabrasDeCorte :
                  /\ Coincide(t, x[1], x[2])
                  /\ LimiteAntes(t, x[1])
                  /\ LimiteDespues(t, x[1] + Len(x[2])) } }

\* r'[\(\[\{].*?[\)\]\}]'
TramosCorchetes(t) ==
    LET Cierres(q) == { c \in (q + 1)..(FinDeLinea(t, q + 1) - 1) : t[c] \in {")", "]", "}"} }
    IN  { <<q, Menor(Cierres(q))>> :
            q \in { q \in 1..Len(t) : t[q] \in {"(", "[", "{"} /\ Cierres(q) # {} } }

\* r'ticketid[_\-]?\d+'
TramosTicket(t) ==
    LET Num(q) == IF /\ q + 9 <= Len(t)
                     /\ t[q + 8] \in {"_", "-"}
                     /\ t[q + 9] \in Digitos
                  THEN q + 9 ELSE q + 8
        Vale(q) == /\ Coincide(t, q, <<"t", "i", "c", "k", "e", "t", "i", "d">>)
                   /\ Num(q) <= Len(t)
                   /\ t[Num(q)] \in Digitos
    IN  { <<q, FinCorrida(t, Num(q), Digitos) - 1>> : q \in { q \in 1..Len(t) : Vale(q) } }

\* r'\b\d{5,}\b'
TramosNumerosLargos(t) ==
    LET Fin(q) == FinCorrida(t, q, Digitos)
        Vale(q) == /\ t[q] \in Digitos
                   /\ LimiteAntes(t, q)
                   /\ Fin(q) - q >= 5
                   /\ LimiteDespues(t, Fin(q))
    IN  { <<q, Fin(q) - 1>> : q \in { q \in 1..Len(t) : Vale(q) } }

\* [_\-\.\,;:\/\\]
Separadores == {"_", "-", ".", ",", ";", ":", "/", "\\"}

\* re.sub(r'[S]+', ' ', t): every run of characters of S becomes one blank
ColapsarCorridas(t, S) ==
    LET marcado == [i \in 1..Len(t) |->
                      [c |-> IF t[i] \in S THEN " " ELSE t[i],
                       queda |-> t[i] \notin S \/ i = 1 \/ t[i - 1] \notin S]]
        Queda(x) == x.queda
        Quitar(m) == [i \in 1..Len(m) |-> m[i].c]
    IN  Quitar(SelectSeq(marcado, Queda))

\* a-z, 0-9 and the accented letters the pattern of the code lists
LetrasPermitidas == Minusculas \cup Digitos

\* re.sub(r'[^a-z0-9...\s]', ' ', t)
OtrosAEspacio(t) ==
    [i \in 1..Len(t) |-> IF t[i] \in LetrasPermitidas \cup Espacios THEN t[i] ELSE " "]

\* quitar_acentos: NFKD and the combining marks dropped
LetraBase(c) ==
    CASE c = "a'" -> "a" [] c = "e'" -> "e" [] c = "i'" -> "i" [] c = "o'" -> "o"
      [] c = "u'" -> "u" [] c = "n~" -> "n" [] c = "A'" -> "A" [] c = "E'" -> "E"
      [] c = "I'" -> "I" [] c = "O'" -> "O" [] c = "U'" -> "U" [] c = "N~" -> "N"
      [] OTHER -> c

quitar_acentos(text) == [i \in 1..Len(text) |-> LetraBase(text[i])]

\* the truncations of the file-name noise, in the order of the code
QuitarRuido(s) ==
    LET Paso(t, tramos, reemplazo) == ReemplazarTramos(t, tramos, 1, reemplazo)
        SinPdf(t) == Paso(t, TramosPdf(t), <<>>)
        SinMail(t) == Paso(t, TramosMail(t), <<>>)
        SinNo(t) == Paso(t, TramosNo(t), <<>>)
        SinNis(t) == Paso(t, TramosNis(t), <<>>)
        SinRadicado(t) == Paso(t, TramosRadicado(t), <<>>)
        SinAnexos(t) == Paso(t, TramosAnexos(t), <<>>)
        SinCorchetes(t) == Paso(t, TramosCorchetes(t), <<" ">>)
        SinTicket(t) == Paso(t, TramosTicket(t), <<" ">>)
        SinNumeros(t) == Paso(t, TramosNumerosLargos(t), <<" ">>)
    IN  SinNumeros(SinTicket(SinCorchetes(SinAnexos(SinRadicado(SinNis(SinNo(SinMail(
            SinPdf(s)))))))))

normalizar_texto(s) ==
    IF s = <<>> THEN <<>>
    ELSE strip(ColapsarEspacios(quitar_acentos(OtrosAEspacio(
             ColapsarCorridas(QuitarRuido(lower(s)), Separadores)))))

---------------------------------------------------------------------------
(* FilenameInferencer: inferir_items_desde_nombre                          *)

\* the markers of an all-in-one file
todo_markers ==
    { <<"t","o","d","o">>,
      <<"c","o","m","p","l","e","t","o">>,
      <<"c","o","m","p","l","e","t","a">>,
      <<"d","o","c","u","m","e","n","t","o","s">>,
      <<"d","o","c","u","m","e","n","t","o">>,
      <<"a","n","e","x","o">>,
      <<"a","n","e","x","o","s">>,
      <<"a","d","j","u","n","t","o","s">>,
      <<"a","d","j","u","n","t","o">>,
      <<"t","o","d","o","s">> }

\* mutant: no marker is looked for
HayMarcadorNunca(nm) == FALSE

\* any(m in nm for m in todo_markers)
HayMarcador(nm) == \E m \in todo_markers : Contiene(nm, m)

\* the phrases of an item: its title and its keywords, normalised, the empty
\* ones left out (the code sorts them longest first and stops at the first
\* one found, which decides the log line only)
FrasesDe(item) ==
    ({ normalizar_texto(item.titulo) }
       \cup { normalizar_texto(item.keywords[j]) : j \in 1..Len(item.keywords) }) \ {<<>>}

\* the phrases of every item of the two catalogs
FrasesPorItem ==
    [tipo_devolucion \in {"misional", "no_misional"} |->
        [k \in 1..Len(CHECKLIST(tipo_devolucion)) |-> FrasesDe(CHECKLIST(tipo_devolucion)[k])]]

\* sorted() of the ids of a catalog
IdsOrdenados(tipo_devolucion) ==
    IF tipo_devolucion = "misional"
    THEN << "acta_consorcial", "camara_comercio", "carta_representante", "cedula_persona_natural", "cert_bancaria", "cert_contador",
         "contrato_salario_integral", "recibo_pago_fic",
         "resoluciones_multas", "rut", "tarjeta_profesional" >>
    ELSE << "acta_terminacion_convenio", "camara_comercio_nm", "carta_peticionario", "cedula_persona_natural_nm",
         "cert_autorizacion_coordinador_nm", "cert_bancaria_nm",
         "factura_produccion_nm", "recibos_pago_nm", "rut_nm" >>

\* the ids returned, as allowed_item_ids is held: a list, never None
ListaDeIds(ids) == [nulo |-> FALSE, ids |-> ids]

\* the part of inferir_items_desde_nombre that follows the normalisation of
\* the name: nm the normalised name, frases the phrases of checklist_items
InferirDeNormalizado(nm, checklist_items, frases, tipo_devolucion) ==
    IF nm = <<>> THEN ListaDeIds(<<>>)
    ELSE IF HayMarcador(nm) THEN ListaDeIds(<<>>)
    ELSE LET Detectado(id) ==
                 \E k \in 1..Len(checklist_items) :
                     /\ checklist_items[k].id = id
                     /\ \E frase \in frases[k] : Contiene(nm, frase)
         IN  ListaDeIds(SelectSeq(IdsOrdenados(tipo_devolucion), Detectado))

inferir_items_desde_nombre(nombre_archivo, tipo_devolucion) ==
    IF nombre_archivo = <<>> THEN ListaDeIds(<<>>)
    ELSE InferirDeNormalizado(normalizar_texto(nombre_archivo),
                              CHECKLIST(IF tipo_devolucion = "misional"
                                        THEN "misional" ELSE "no_misional"),
                              FrasesPorItem[IF tipo_devolucion = "misional"
                                            THEN "misional" ELSE "no_misional"],
                              tipo_devolucion)

---------------------------------------------------------------------------
(* The filename inference applied to one file name                         *)

\* how a file name starts: nothing, a mail prefix, a folder prefix
IniciosNombre ==
    { <<>>,
      <<"0","1","-","m","a","i","l"," ">>,
      <<"E","x","p","_">> }

\* the document the name announces
NucleosNombre ==
    { <<"r","u","t">>,
      <<"C","e","r","t","i","f","i","c","a","c","i","o'","n"," ","B","a","n","c","a","r","i","a">>,
      <<"c","a","r","t","a">>,
      <<"s","c","a","n"," ","2","0","2","4">> }

\* what follows: catch-all markers plain, in brackets, after 'radicado' and
\* after '- No.', the word 'anexos', a long number
MarcasNombre ==
    { <<>>,
      <<" ","c","o","m","p","l","e","t","o">>,
      <<" ","a","n","e","x","o","s">>,
      <<" ","(","c","o","m","p","l","e","t","o",")">>,
      <<" ","r","a","d","i","c","a","d","o"," ","c","o","m","p","l","e","t","o">>,
      <<"_","d","o","c","u","m","e","n","t","o","s">>,
      <<" ","t","o","d","o","s"," ","1","2","3","4","5","6">>,
      <<" ","-"," ","N","o","."," ","1","2"," ","a","d","j","u","n","t","o">> }


NombresInferencia ==
    { ini \o nuc \o marca \o <<".", "p", "d", "f">> :
        ini \in IniciosNombre, nuc \in NucleosNombre, marca \in MarcasNombre }

InferirInit ==
    /\ catalogos = CatalogosDelModulo
    /\ cal = CalNinguna
    /\ now \in FechasHoy
    /\ documentos = <<>>
    /\ llamada \in [op : {"por_inferir"}, nombre_archivo : NombresInferencia,
                    tipo_devolucion : TiposDevolucion]
    /\ retorno = RetornoNinguno
    /\ filas = <<>>

InferirItems ==
    /\ llamada.op = "por_inferir"
    /\ retorno' = inferir_items_desde_nombre(llamada.nombre_archivo, llamada.tipo_devolucion)
    /\ llamada' = [llamada EXCEPT !.op = "inferir_items_desde_nombre"]
    /\ UNCHANGED <<cal, now, documentos, filas, catalogos>>

InferirNext == InferirItems

SpecInferir == InferirInit /\ [][InferirNext]_vars


\* ---------------------------------------------------------------------------
\* Claims about the inference from the file name
\* ---------------------------------------------------------------------------

Inferido == llamada.op = "inferir_items_desde_nombre"

\* the file name as written, in lower case
NombreEscrito == lower(llamada.nombre_archivo)

\* the file name as written contains one of the markers
MarcadorEnNombre == \E m \in todo_markers : Contiene(NombreEscrito, m)

\* C20: a file name that contains a catch-all marker anywhere yields no
\* inferred item, whatever titles or keywords it also contains.
C20_Original == (Inferido /\ MarcadorEnNombre) => retorno.ids = <<>>


---------------------------------------------------------------------------
(* Errors raised by the validity check                                     *)

\* the Document of page i carries a stored issuance date for which the
\* validity limit of the item cannot be computed
LimiteDesborda(item, i) ==
    /\ llamada.antes[i].fecha_documento # None
    /\ obtener_fecha_date(llamada.antes[i].fecha_documento, now) # SinFecha
    /\ FueraDeRango(fecha_limite_habiles(
                        obtener_fecha_date(llamada.antes[i].fecha_documento, now),
                        item.vigencia_dias))

\* the Documents cited as evidence in row a, by their page
PaginasDeFila(a) ==
    { filas[a].ArchivosFuente.lista[j].paginas[1] :
        j \in 1..Len(filas[a].ArchivosFuente.lista) }

ItemDeFila(a) == CatalogoActivo[PosicionEnCatalogo(filas[a].ItemID)]

\* row a is of an item with a validity window, and the check raised on one
\* of its accepted Documents
FilaConError(a) ==
    /\ ItemDeFila(a).vigencia_dias # 0
    /\ \E i \in PaginasDeFila(a) : LimiteDesborda(ItemDeFila(a), i)

UltimaPaginaDeFila(a) ==
    filas[a].ArchivosFuente.lista[Len(filas[a].ArchivosFuente.lista)].paginas[1]

---------------------------------------------------------------------------
(* The date extraction applied to texts made of numeric date triplets      *)

MaxFechas == 3

\* the three digit groups of a triplet, as written, and its separator
DiasTexto == { <<"1">>, <<"0", "5">>, <<"1", "2">>, <<"1", "3">>, <<"3", "1">> }
MesesTexto == { <<"0", "1">>, <<"2">>, <<"0", "4">>, <<"1", "2">> }
AniosTexto == { <<"2", "0", "2", "4">>, <<"2", "4">>, <<"9", "9">>, <<"2", "0", "1", "9">> }
SeparadoresFecha == {"/", "-", ".", " "}

Tripleta(a, b, c, sep) == [a |-> a, b |-> b, c |-> c, sep |-> sep]

TripletasSueltas ==
    { Tripleta(a, b, c, sep) :
        a \in DiasTexto, b \in MesesTexto, c \in AniosTexto, sep \in SeparadoresFecha }

\* dates on either side of the two ends of the window of the selection, which
\* on 2025-06-02 runs from 2020-06-03 to 2026-06-02
TripletasVentana ==
    { Tripleta(<<"0", "4">>, <<"0", "3">>, <<"2", "0", "2", "5">>, "/"),
      Tripleta(<<"1", "5">>, <<"0", "3">>, <<"2", "0", "1", "9">>, "/"),
      Tripleta(<<"0", "2">>, <<"0", "6">>, <<"2", "0", "2", "0">>, "-"),
      Tripleta(<<"0", "3">>, <<"0", "6">>, <<"2", "0", "2", "0">>, "-"),
      Tripleta(<<"0", "2">>, <<"0", "6">>, <<"2", "0", "2", "6">>, "."),
      Tripleta(<<"0", "3">>, <<"0", "6">>, <<"2", "0", "2", "6">>, "."),
      Tripleta(<<"0", "1">>, <<"0", "1">>, <<"2", "0", "2", "7">>, "/") }

\* triplets written year first, which the second alternative of
\* RE_DATE_NUMERIC matches
TripletasAnioPrimero ==
    { Tripleta(<<"2", "0", "2", "4">>, <<"0", "5">>, <<"0", "3">>, "-"),
      Tripleta(<<"2", "0", "2", "4">>, <<"1", "2">>, <<"3", "1">>, "/"),
      Tripleta(<<"2", "0", "1", "9">>, <<"4">>, <<"1", "3">>, ".") }

TextoDeTripleta(tr) == tr.a \o <<tr.sep>> \o tr.b \o <<tr.sep>> \o tr.c

\* the triplets written one after the other, "; " between them
RECURSIVE TextoDeTripletas(_)
TextoDeTripletas(trs) ==
    IF trs = <<>> THEN <<>>
    ELSE IF Len(trs) = 1 THEN TextoDeTripleta(trs[1])
    ELSE TextoDeTripleta(trs[1]) \o <<";", " ">> \o TextoDeTripletas(Tail(trs))

\* dates written with a word for the month: an issuance word or nothing, the
\* day, the word, the year, with or without "de" and "del" in between
PrefijosNombre == { <<>>, <<"f", "e", "c", "h", "a", " ">> }
DiasNombre == { <<"3", "0">>, <<"5">>, <<"3", "1">>, <<"0">> }
EnlacesDia == { <<" ">>, <<" ", "d", "e", " ">> }
PalabrasMes ==
    { <<"d", "i", "c">>, <<"D", "i", "c", "i", "e", "m", "b", "r", "e">>,
      <<"f", "e", "b", "r", "e", "r", "o">>, <<"x", "y", "z">>, <<"d">> }
EnlacesAnio == { <<" ">>, <<" ", "d", "e", " ">>, <<" ", "d", "e", "l", " ">> }
AniosNombre ==
    { <<"2", "0", "2", "4">>, <<"2", "4">>, <<"9", "9">>, <<"9", "9", "9", "9">>,
      <<"0", "1", "5", "0">> }

TextosConNombre ==
    { pre \o d \o e1 \o w \o e2 \o a :
        pre \in PrefijosNombre, d \in DiasNombre, e1 \in EnlacesDia, w \in PalabrasMes,
        e2 \in EnlacesAnio, a \in AniosNombre }

\* no triplet, one triplet of any shape, several dates around the window
SecuenciasTripletas ==
    {<<>>}
    \cup { <<tr>> : tr \in TripletasSueltas \cup TripletasVentana \cup TripletasAnioPrimero }
    \cup UNION { [1..n -> TripletasVentana] : n \in 2..MaxFechas }

FechasInit ==
    /\ catalogos = CatalogosDelModulo
    /\ cal = CalNinguna
    /\ now \in FechasHoy
    /\ documentos = <<>>
    /\ llamada \in
           { [op |-> "por_extraer", tripletas |-> trs,
              texto |-> TextoDeTripletas(trs), contexto_bancario |-> cb] :
                trs \in SecuenciasTripletas, cb \in BOOLEAN }
           \cup { [op |-> "por_extraer", tripletas |-> <<>>,
                   texto |-> t, contexto_bancario |-> cb] :
                     t \in TextosConNombre, cb \in BOOLEAN }
    /\ retorno = RetornoNinguno
    /\ filas = <<>>

\* extraer_fecha_mejorada(texto, contexto_bancario); fechas is the list of
\* candidates it gets from extraer_todas_fechas_texto, numericas the part of
\* it that the numeric pass found
ExtraerFecha ==
    /\ llamada.op = "por_extraer"
    /\ retorno' = [fechas |-> extraer_todas_fechas_texto(llamada.texto,
                                                         llamada.contexto_bancario, now),
                   numericas |-> FechasNumericas(limpiar_texto_fecha(llamada.texto)),
                   fecha |-> extraer_fecha_mejorada(llamada.texto,
                                                    llamada.contexto_bancario, now)]
    /\ llamada' = [llamada EXCEPT !.op = "extraer_fecha_mejorada"]
    /\ UNCHANGED <<cal, now, documentos, filas, catalogos>>

FechasNext == ExtraerFecha

SpecFechas == FechasInit /\ [][FechasNext]_vars


---------------------------------------------------------------------------
(* Properties of the date extraction                                       *)

Extraido == llamada.op = "extraer_fecha_mejorada"

\* the number a digit group is read as
ValorDe(grupo) == Numero(grupo, 1, Len(grupo) + 1)

\* the year a group stands for: two digits are 20xx below 50, 19xx otherwise
AnioLeido(grupo) ==
    IF ValorDe(grupo) >= 100 THEN ValorDe(grupo)
    ELSE IF ValorDe(grupo) < 50 THEN 2000 + ValorDe(grupo) ELSE 1900 + ValorDe(grupo)

\* a in [1,31], b in [1,12], c a valid year
TripletaLegible(tr) ==
    /\ ValorDe(tr.a) \in 1..31
    /\ ValorDe(tr.b) \in 1..12
    /\ AnioLeido(tr.c) \in 1900..2100

\* the day-first readings of the triplets of the text that are dates of the
\* calendar
LecturasDiaPrimero ==
    { Fecha(AnioLeido(tr.c), ValorDe(tr.b), ValorDe(tr.a)) :
        tr \in { x \in Rango(llamada.tripletas) :
                   /\ TripletaLegible(x)
                   /\ FechaValida(AnioLeido(x.c), ValorDe(x.b), ValorDe(x.a)) } }

\* C14: the numeric pass reads a triplet a-b-c with a in [1,31], b in [1,12]
\* and c a valid year as day a of month b, also when a <= 12 and the
\* month-first reading would be a date too; it adds no other date.
C14_DiaPrimero ==
    (Extraido /\ \A i \in 1..Len(llamada.tripletas) : TripletaLegible(llamada.tripletas[i]))
        => retorno.numericas = LecturasDiaPrimero

\* '05/04/2024', which could be the 4th of May, is read as the 5th of April
C14_Witness ==
    /\ Extraido
    /\ llamada.texto = <<"0", "5", "/", "0", "4", "/", "2", "0", "2", "4">>
    /\ retorno.numericas = {Fecha(2024, 4, 5)}

Candidatas == retorno.fechas

EsMaximoDe(f, S) == f \in S /\ \A g \in S : FechaLE(g, f)

\* the window counted in days: 5 x 365 days back, 365 days ahead
EnVentanaDias(f) ==
    /\ toordinal(now) - 5 * 365 <= toordinal(f)
    /\ toordinal(f) <= toordinal(now) + 365

\* the window counted in calendar years
EnVentanaAnios(f) ==
    /\ FechaLE(Fecha(now.y - 5, now.m, now.d), f)
    /\ FechaLE(f, Fecha(now.y + 1, now.m, now.d))

\* the selection rule, for a given restricted set
SeleccionSegun(restringidas) ==
    /\ Candidatas = {} => retorno.fecha = SinFecha
    /\ Cardinality(Candidatas) = 1 => retorno.fecha \in Candidatas
    /\ Cardinality(Candidatas) > 1 =>
           IF restringidas # {} THEN EsMaximoDe(retorno.fecha, restringidas)
           ELSE EsMaximoDe(retorno.fecha, Candidatas)

\* C15 as stated: no candidate gives nothing, one candidate gives that
\* candidate, several give the latest of those within
\* [today - 5 years, today + 1 year] if there is one and the latest of all
\* otherwise.
C15_Original ==
    Extraido => SeleccionSegun({ f \in Candidatas : EnVentanaAnios(f) })

\* C15: the same rule with the window [today - 1825 days, today + 365 days];
\* the result is a candidate whenever there is one.
C15_SeleccionVentanaDias ==
    Extraido =>
        /\ SeleccionSegun({ f \in Candidatas : EnVentanaDias(f) })
        /\ Candidatas # {} => retorno.fecha \in Candidatas

\* the one candidate that is not in the future is five calendar years old to
\* the day, which is a day before the window opens: the latest of all is taken
C15_Witness ==
    /\ Extraido
    /\ now = Fecha(2025, 6, 2)
    /\ Candidatas = {Fecha(2020, 6, 2), Fecha(2027, 1, 1)}
    /\ retorno.fecha = Fecha(2027, 1, 1)


---------------------------------------------------------------------------
(* The pages of a file: extraer_info_por_pagina.  The rendering of the PDF, *)
(* the OCR and the signature detection are given: an image is the record   *)
(* [texto, conf, firma] of what they return for it.                        *)

\* the digit runs of 6 to 12 digits that end at a word boundary, by their
\* first position
CorridasDeIdentidad(t) ==
    { q \in 1..Len(t) :
        /\ t[q] \in Digitos
        /\ (q = 1 \/ t[q - 1] \notin Digitos)
        /\ FinCorrida(t, q, Digitos) - q \in 6..12
        /\ LimiteDespues(t, FinCorrida(t, q, Digitos)) }

\* RE_NIT: the run starts at a word boundary, or right after a word NIT; the
\* separators the pattern allows after NIT are themselves a word boundary
NitEn(t) ==
    { q \in CorridasDeIdentidad(t) :
        \/ LimiteAntes(t, q)
        \/ Coincide(t, q - 3, <<"N", "I", "T">>) /\ LimiteAntes(t, q - 3) }

\* the literal lit stands in t from position p on, whatever the case
CoincideSinCaja(t, p, lit) ==
    /\ p >= 1
    /\ p + Len(lit) - 1 <= Len(t)
    /\ \A j \in 1..Len(lit) : Minuscula(t[p + j - 1]) = lit[j]

\* t[i..q-1] matches \s*[:#]?\s*
EntreCedula(t, i, q) ==
    /\ \A j \in i..(q - 1) : t[j] \in Espacios \cup {":", "#"}
    /\ Cardinality({ j \in i..(q - 1) : t[j] \in {":", "#"} }) <= 1

\* t[i..q-1] matches [:\s\-]*\s*[:#]?\s*
EntreCC(t, i, q) ==
    \E k \in i..q :
        /\ \A j \in i..(k - 1) : t[j] \in Espacios \cup {":", "-"}
        /\ EntreCedula(t, k, q)

\* Cedula, with and without accent, and Cedula de Ciudadania
NombresCedula ==
    { <<"c","e'","d","u","l","a">>,
      <<"c","e","d","u","l","a">>,
      <<"c","e'","d","u","l","a"," ","d","e"," ","c","i","u","d","a","d","a","n","i'","a">> }

\* RE_CEDULA (IGNORECASE): C C, C-C or CC, or one of the names, at a word
\* boundary, then the separators, then the run
CedulaEn(t) ==
    { q \in CorridasDeIdentidad(t) :
        \E i \in 1..q :
            \/ /\ EntreCC(t, i, q)
               /\ \/ CoincideSinCaja(t, i - 2, <<"c", "c">>) /\ LimiteAntes(t, i - 2)
                  \/ /\ CoincideSinCaja(t, i - 3, <<"c">>)
                     /\ t[i - 2] \in Espacios \cup {"-"}
                     /\ CoincideSinCaja(t, i - 1, <<"c">>)
                     /\ LimiteAntes(t, i - 3)
            \/ /\ EntreCedula(t, i, q)
               /\ \E lit \in NombresCedula :
                      CoincideSinCaja(t, i - Len(lit), lit) /\ LimiteAntes(t, i - Len(lit)) }

\* nit: group 1 of the first match of RE_NIT, else of RE_CEDULA, else None
BuscarNit(texto) ==
    LET Corrida(q) == SubSeq(texto, q, FinCorrida(texto, q, Digitos) - 1)
    IN  IF NitEn(texto) # {} THEN Corrida(Menor(NitEn(texto)))
        ELSE IF CedulaEn(texto) # {} THEN Corrida(Menor(CedulaEn(texto)))
        ELSE <<>>

PalabrasBancarias ==
    {
      <<"c","e","r","t","i","f","i","c","a","c","i","o","n"," ","b","a","n","c","a","r","i","a">>,
      <<"c","e","r","t","i","f","i","c","a","d","o"," ","b","a","n","c","a","r","i","o">>,
      <<"b","a","n","c","o">>,
      <<"c","u","e","n","t","a">>,
      <<"b","a","n","c","a","r","i","a">>,
      <<"e","n","t","i","d","a","d"," ","f","i","n","a","n","c","i","e","r","a">>,
      <<"c","e","r","t","i","f","i","c","a","c","i","o'","n"," ","b","a","n","c","a","r","i","a">> }

\* any(kw in texto.lower() for kw in [...])
ContextoBancarioPagina(texto) == \E kw \in PalabrasBancarias : Contiene(lower(texto), kw)

\* fecha_doc.isoformat() if fecha_doc else None
FechaDePagina(fecha_doc) == IF fecha_doc = SinFecha THEN None ELSE isoformat(fecha_doc)

extraer_info_por_pagina(nombre_archivo, images, hoy) ==
    [i \in 1..Len(images) |->
        [archivo |-> nombre_archivo,
         pagina |-> i,
         texto |-> images[i].texto,
         ocr_conf |-> images[i].conf,
         tipo_detectado |-> clasificar_pagina(nombre_archivo, images[i].texto).tipo,
         nit_o_cedula |-> BuscarNit(images[i].texto),
         fecha_documento |->
             FechaDePagina(extraer_fecha_mejorada(images[i].texto,
                                                  ContextoBancarioPagina(images[i].texto), hoy)),
         firma_manuscrita |-> images[i].firma]]


---------------------------------------------------------------------------
(* Batch run: procesar_carpeta.  A file of the folder is the record        *)
(* [nombre, convierte, images, legible]: its name, whether the PDF can be  *)
(* rendered, the images of its pages, and whether it can be read again     *)
(* when its hash is taken for the summary.                                 *)

\* f.lower().endswith(".pdf")
EsPdf(nombre) ==
    /\ Len(nombre) >= 4
    /\ lower(SubSeq(nombre, Len(nombre) - 3, Len(nombre))) = <<".", "p", "d", "f">>

\* the columns procesar_carpeta adds to a row of generar_checklist
FilaDeArchivo(fila, fname, allowed_ids) ==
    [TipoDevolucion |-> fila.TipoDevolucion,
     PeticionarioTipo |-> fila.PeticionarioTipo,
     ItemID |-> fila.ItemID,
     Requerido |-> fila.Requerido,
     Estado |-> fila.Estado,
     ArchivosFuente |-> fila.ArchivosFuente,
     Observaciones |-> fila.Observaciones,
     SolicitudArchivo |-> fname,
     NombreArchivo |-> fname,
     InferredItemIDs |-> [nulo |-> allowed_ids.ids = <<>>, ids |-> allowed_ids.ids]]

\* the row of the except block; motivo stands for str(e)
FilaError(fname, tipo_devolucion, peticionario_tipo, motivo) ==
    [TipoDevolucion |-> tipo_devolucion,
     PeticionarioTipo |-> peticionario_tipo,
     ItemID |-> "ERROR",
     Requerido |-> TRUE,
     Estado |-> "ERROR",
     ArchivosFuente |-> Evidencia(<<[archivo |-> fname, paginas |-> <<>>]>>),
     Observaciones |-> <<Nota(motivo)>>,
     SolicitudArchivo |-> fname,
     NombreArchivo |-> fname,
     InferredItemIDs |-> [nulo |-> TRUE, ids |-> <<>>]]

\* what the except block appends to todas_las_filas
FilasDelExcept(fname, tipo_devolucion, peticionario_tipo, motivo) ==
    <<FilaError(fname, tipo_devolucion, peticionario_tipo, motivo)>>

\* df_check with the three columns the loop adds
FilasDelChecklist(df_check, fname, allowed_ids) ==
    [a \in 1..Len(df_check) |-> FilaDeArchivo(df_check[a], fname, allowed_ids)]

\* the end of the try block: the rows are appended to todas_las_filas, then
\* the entry of resumen_archivos is built, which reads the file for its hash
AnotarArchivo(archivo, filasArchivo, paginas_detectadas, documentos_detectados, tipo_devolucion, peticionario_tipo) ==
    IF archivo.legible
    THEN [filas |-> filasArchivo,
          resumen |-> <<[archivo |-> archivo.nombre,
                         paginas_detectadas |-> paginas_detectadas,
                         documentos_detectados |-> documentos_detectados]>>]
    ELSE [filas |-> filasArchivo
                      \o FilasDelExcept(archivo.nombre, tipo_devolucion, peticionario_tipo, "error_lectura"),
          resumen |-> <<>>]

\* the checklist of the Documents of one file: of the inferred items when
\* the name announces any, of all the items otherwise
EvaluarArchivo(archivo, paginas_detectadas, documentos_detectados, allowed_ids, fecha_recepcion_str, tipo_devolucion, peticionario_tipo, hoy) ==
    AnotarArchivo(archivo,
                  FilasDelChecklist(
                      generar_checklist(documentos_detectados, tipo_devolucion, fecha_recepcion_str,
                                        peticionario_tipo,
                                        IF allowed_ids.ids # <<>> THEN allowed_ids
                                        ELSE [nulo |-> TRUE, ids |-> <<>>],
                                        hoy).filas,
                      archivo.nombre, allowed_ids),
                  paginas_detectadas, Len(documentos_detectados),
                  tipo_devolucion, peticionario_tipo)

\* the pages of one file grouped and evaluated
AgruparArchivo(archivo, paginas_info, fecha_recepcion_str, tipo_devolucion, peticionario_tipo, hoy) ==
    EvaluarArchivo(archivo, Len(paginas_info), agrupar_paginas_en_documentos(paginas_info),
                   inferir_items_desde_nombre(archivo.nombre, tipo_devolucion),
                   fecha_recepcion_str, tipo_devolucion, peticionario_tipo, hoy)

\* the body of the loop for one file: the rows it appends to todas_las_filas
\* and the entry it appends to resumen_archivos.  The receipt date is parsed
\* first, as an argument of the call that renders the file; the rows of the
\* checklist are appended before the hash of the file is taken.
ProcesarArchivo(archivo, fecha_recepcion_str, tipo_devolucion, peticionario_tipo, hoy) ==
    IF ~parse_date(fecha_recepcion_str.tok, hoy).ok
    THEN [filas |-> FilasDelExcept(archivo.nombre, tipo_devolucion, peticionario_tipo,
                                   "error_fecha_recepcion"),
          resumen |-> <<>>]
    ELSE IF ~archivo.convierte
    THEN [filas |-> FilasDelExcept(archivo.nombre, tipo_devolucion, peticionario_tipo,
                                   "error_conversion"),
          resumen |-> <<>>]
    ELSE AgruparArchivo(archivo, extraer_info_por_pagina(archivo.nombre, archivo.images, hoy),
                        fecha_recepcion_str, tipo_devolucion, peticionario_tipo, hoy)

\* mutant: the loop ends at the first file whose processing raises
RECURSIVE RecorrerArchivosHastaFalla(_, _, _, _, _, _, _)
RecorrerArchivosHastaFalla(pdf_files, i, acc, fecha_recepcion_str, tipo_devolucion, peticionario_tipo, hoy) ==
    IF i > Len(pdf_files) \/ (acc.filas # <<>> /\ acc.filas[Len(acc.filas)].Estado = "ERROR")
    THEN acc
    ELSE LET Sumar(r) == [filas |-> acc.filas \o r.filas, resumen |-> acc.resumen \o r.resumen]
         IN  RecorrerArchivosHastaFalla(pdf_files, i + 1,
                              Sumar(ProcesarArchivo(pdf_files[i], fecha_recepcion_str,
                                                    tipo_devolucion, peticionario_tipo, hoy)),
                              fecha_recepcion_str, tipo_devolucion, peticionario_tipo, hoy)

\* the loop over pdf_files from the i-th file on
RECURSIVE RecorrerArchivos(_, _, _, _, _, _, _)
RecorrerArchivos(pdf_files, i, acc, fecha_recepcion_str, tipo_devolucion, peticionario_tipo, hoy) ==
    IF i > Len(pdf_files) THEN acc
    ELSE LET Sumar(r) == [filas |-> acc.filas \o r.filas, resumen |-> acc.resumen \o r.resumen]
         IN  RecorrerArchivos(pdf_files, i + 1,
                              Sumar(ProcesarArchivo(pdf_files[i], fecha_recepcion_str,
                                                    tipo_devolucion, peticionario_tipo, hoy)),
                              fecha_recepcion_str, tipo_devolucion, peticionario_tipo, hoy)

\* the catalogs after the loop over pdf_files from the i-th file on: a file
\* that is rendered has its checklist generated, of the items its name
\* announces when it announces any
RECURSIVE CatalogosTrasArchivos(_, _, _, _, _, _)
CatalogosTrasArchivos(c, pdf_files, i, fecha_recepcion_str, tipo_devolucion, hoy) ==
    IF i > Len(pdf_files) THEN c
    ELSE CatalogosTrasArchivos(
             IF parse_date(fecha_recepcion_str.tok, hoy).ok /\ pdf_files[i].convierte
             THEN CatalogosTrasChecklist(c, tipo_devolucion,
                                         inferir_items_desde_nombre(pdf_files[i].nombre,
                                                                    tipo_devolucion))
             ELSE c,
             pdf_files, i + 1, fecha_recepcion_str, tipo_devolucion, hoy)

\* the catalogs after procesar_carpeta
CatalogosTrasLote(c, listado, fecha_recepcion_str, tipo_devolucion, hoy) ==
    LET Pdf(archivo) == EsPdf(archivo.nombre)
    IN  CatalogosTrasArchivos(c, SelectSeq(listado, Pdf), 1, fecha_recepcion_str,
                              tipo_devolucion, hoy)

\* procesar_carpeta: nulo is the None it returns for a folder without PDFs;
\* filas is the sheet Checklist and resumen the sheet ResumenArchivos of the
\* report.  Writing the report and filling the template come after the loop
\* and change neither.
procesar_carpeta(listado, fecha_recepcion_str, tipo_devolucion, peticionario_tipo, hoy) ==
    LET Pdf(archivo) == EsPdf(archivo.nombre)
        pdf_files == SelectSeq(listado, Pdf)
        Informe(r) == [nulo |-> FALSE, filas |-> r.filas, resumen |-> r.resumen]
    IN  IF pdf_files = <<>> THEN [nulo |-> TRUE, filas |-> <<>>, resumen |-> <<>>]
        ELSE Informe(RecorrerArchivos(pdf_files, 1, [filas |-> <<>>, resumen |-> <<>>],
                                      fecha_recepcion_str, tipo_devolucion,
                                      peticionario_tipo, hoy))

---------------------------------------------------------------------------
(* Folders the batch is run on                                             *)

MaxArchivos == 3

\* 'Registro unico tributario RUT de la sociedad, NIT 900123456 vigente'
PaginaRutNit ==
    <<"R","e","g","i","s","t","r","o"," ","u","n","i","c","o"," ","t","r","i","b","u","t","a","r","i","o"," ","R","U","T"," ","d","e"," ","l","a"," ","s","o","c","i","e","d","a","d",","," ","N","I","T"," ","9","0","0","1","2","3","4","5","6"," ","v","i","g","e","n","t","e">>

\* 'cedula de ciudadania CC12345678 del representante legal'
PaginaCedulaPegada ==
    <<"c","e","d","u","l","a"," ","d","e"," ","c","i","u","d","a","d","a","n","i","a"," ","C","C","1","2","3","4","5","6","7","8"," ","d","e","l"," ","r","e","p","r","e","s","e","n","t","a","n","t","e"," ","l","e","g","a","l">>

\* 'notas.txt'
NombreNotas ==
    <<"n","o","t","a","s",".","t","x","t">>

Imagen(texto, conf, firma) == [texto |-> texto, conf |-> conf, firma |-> firma]

\* a file named after one item, a scan of two Documents, a PDF that cannot be
\* rendered, a PDF that cannot be read again for its hash, a text file
ArchivosMuestra ==
    { [nombre |-> NombreRut, convierte |-> TRUE, legible |-> TRUE,
       images |-> <<Imagen(PaginaRutNit, 60, FALSE), Imagen(PaginaCedulaPegada, 0, FALSE)>>],
      [nombre |-> NombreEscaneo, convierte |-> TRUE, legible |-> TRUE,
       images |-> <<Imagen(PaginaBanco, 60, FALSE), Imagen(PaginaCarta, 60, TRUE)>>],
      [nombre |-> NombreBancaria, convierte |-> FALSE, legible |-> TRUE, images |-> <<>>],
      [nombre |-> NombreCartaGuiones, convierte |-> TRUE, legible |-> FALSE,
       images |-> <<Imagen(PaginaCarta, 60, TRUE)>>],
      [nombre |-> NombreNotas, convierte |-> FALSE, legible |-> TRUE, images |-> <<>>] }

\* os.listdir: up to MaxArchivos files, no name twice, in any order
Listados ==
    UNION { { l \in [1..n -> ArchivosMuestra] : \A i, j \in 1..n : i # j => l[i] # l[j] } :
              n \in 0..MaxArchivos }

\* the receipt date of the command line: a date, and a string that is none
RecepcionesCarpeta ==
    { ObjStr([n |-> <<2025, 4, 25>>, l |-> <<4, 2, 2>>]),
      ObjStr([n |-> <<2025, 13, 45>>, l |-> <<4, 2, 2>>]) }

CarpetaInit ==
    /\ catalogos = CatalogosDelModulo
    /\ cal = CalNinguna
    /\ now \in FechasHoy
    /\ documentos = <<>>
    /\ llamada \in [op : {"por_procesar"}, listado : Listados,
                    fecha_recepcion_str : RecepcionesCarpeta,
                    tipo_devolucion : TiposDevolucion,
                    peticionario_tipo : {"persona_juridica"}]
    /\ retorno = RetornoNinguno
    /\ filas = <<>>

ProcesarCarpeta ==
    /\ llamada.op = "por_procesar"
    /\ LET Recibir(r) ==
               /\ filas' = r.filas
               /\ retorno' = [nulo |-> r.nulo, resumen |-> r.resumen]
       IN  Recibir(procesar_carpeta(llamada.listado, llamada.fecha_recepcion_str,
                                    llamada.tipo_devolucion, llamada.peticionario_tipo, now))
    /\ llamada' = [llamada EXCEPT !.op = "procesar_carpeta"]
    /\ catalogos' = CatalogosTrasLote(catalogos, llamada.listado, llamada.fecha_recepcion_str,
                                      llamada.tipo_devolucion, now)
    /\ UNCHANGED <<cal, now, documentos>>

CarpetaNext == ProcesarCarpeta

SpecCarpeta == CarpetaInit /\ [][CarpetaNext]_vars

---------------------------------------------------------------------------
(* Claims about the batch run                                              *)

Procesado == llamada.op = "procesar_carpeta"

\* the files of the folder the loop visits
ArchivosDelLote == { llamada.listado[i] : i \in { j \in 1..Len(llamada.listado) : EsPdf(llamada.listado[j].nombre) } }

\* the rows of the report that belong to one file
FilasDeNombre(nombre) == { a \in 1..Len(filas) : filas[a].NombreArchivo = nombre }

RecepcionLegible == parse_date(llamada.fecha_recepcion_str.tok, now).ok

\* the processing of the file raises: the receipt date, the rendering, or
\* the second reading of the file for its hash
Falla(archivo) == ~RecepcionLegible \/ ~archivo.convierte \/ ~archivo.legible

\* C11: in a batch run a file whose processing raises an error contributes
\* exactly one row, with status ERROR, and every file of the batch has at
\* least one row after the run.
C11_Original ==
    Procesado =>
        \A archivo \in ArchivosDelLote :
            /\ FilasDeNombre(archivo.nombre) # {}
            /\ Falla(archivo) =>
                   /\ Cardinality(FilasDeNombre(archivo.nombre)) = 1
                   /\ \A a \in FilasDeNombre(archivo.nombre) : filas[a].Estado = "ERROR"

\* what the code does keep: every file has at least one row, a failing file
\* has exactly one ERROR row, as its last row, and the rows of a file are
\* those its own processing gives, whatever happened to the files before it
LoteContinua ==
    Procesado =>
        \A archivo \in ArchivosDelLote :
            LET propias == ProcesarArchivo(archivo, llamada.fecha_recepcion_str,
                                           llamada.tipo_devolucion, llamada.peticionario_tipo, now).filas
                primera == CHOOSE a \in FilasDeNombre(archivo.nombre) : \A b \in FilasDeNombre(archivo.nombre) : a <= b
                Iguales(F) ==
                    /\ F # {}
                    /\ \A a \in F : a >= primera /\ a < primera + Len(propias)
                    /\ Cardinality(F) = Len(propias)
                    /\ \A a \in F : filas[a] = propias[a - primera + 1]
                    /\ Falla(archivo) <=>
                           Cardinality({ a \in F : filas[a].Estado = "ERROR" }) = 1
                    /\ Falla(archivo) => filas[primera + Len(propias) - 1].Estado = "ERROR"
                    /\ ~Falla(archivo) => \A a \in F : filas[a].Estado # "ERROR"
            IN  Iguales(FilasDeNombre(archivo.nombre))

\* a file that cannot be read for its hash between two files that can: its
\* checklist rows stay in the report, followed by its ERROR row
FallaTrasEvaluar ==
    /\ Procesado
    /\ RecepcionLegible
    /\ Len(llamada.listado) = 3
    /\ llamada.listado[1].nombre = NombreRut
    /\ llamada.listado[2].nombre = NombreCartaGuiones
    /\ llamada.listado[3].nombre = NombreEscaneo
    /\ Cardinality(FilasDeNombre(NombreCartaGuiones)) > 1

\* C12: an unparseable receipt date is not fatal: the files of the batch are
\* still evaluated, against the current date, and are not reported as errors.
C12_Original ==
    (Procesado /\ ~RecepcionLegible) =>
        \A archivo \in ArchivosDelLote :
            (archivo.convierte /\ archivo.legible) =>
                /\ FilasDeNombre(archivo.nombre) # {}
                /\ \A a \in FilasDeNombre(archivo.nombre) : filas[a].Estado # "ERROR"

---------------------------------------------------------------------------
(* Claims about the fields of the Documents                                *)

\* the pages of the call that make up Document d
PaginasDe(d) == [k \in 1..Len(d.paginas) |-> llamada.paginas_info[d.paginas[k]]]

\* the first position of a run whose page satisfies Tiene, 0 if none does
PrimeraCon(ps, Tiene(_)) ==
    IF \E k \in 1..Len(ps) : Tiene(ps[k])
    THEN CHOOSE k \in 1..Len(ps) : Tiene(ps[k]) /\ \A j \in 1..(k - 1) : ~Tiene(ps[j])
    ELSE 0

TieneFecha(p) == p.fecha_documento # None

TieneIdentidad(p) == p.nit_o_cedula # <<>>

\* the fields of a Document against the pages ps of its run
CamposDeCorrida(d, ps) ==
    /\ d.fecha_documento = IF PrimeraCon(ps, TieneFecha) = 0 THEN None
                           ELSE ps[PrimeraCon(ps, TieneFecha)].fecha_documento
    /\ d.nit_o_cedula = IF PrimeraCon(ps, TieneIdentidad) = 0 THEN <<>>
                        ELSE ps[PrimeraCon(ps, TieneIdentidad)].nit_o_cedula
    /\ d.firma_manuscrita = (\E k \in 1..Len(ps) : ps[k].firma_manuscrita)
    /\ d.ocr_conf * Len(ps) = Suma([k \in 1..Len(ps) |-> ps[k].ocr_conf], 1)

\* C27: every Document emitted by agrupar_paginas_en_documentos has the date
\* of the first page of its run that has one (None if none has), the identity
\* number of the first page that has one, the OR of the signature flags of
\* its pages and the mean of their confidences.
C27_CamposDelDocumento ==
    llamada.op = "agrupar_paginas_en_documentos" =>
        \A i \in 1..Len(documentos) : CamposDeCorrida(documentos[i], PaginasDe(documentos[i]))

\* a Document of three pages whose first page has neither date nor identity
\* number nor signature, and whose second page has all three
C27_Witness ==
    /\ llamada.op = "agrupar_paginas_en_documentos"
    /\ Len(documentos) = 1
    /\ documentos[1].paginas = <<1, 2, 3>>
    /\ llamada.paginas_info[1].fecha_documento = None
    /\ llamada.paginas_info[1].nit_o_cedula = <<>>
    /\ ~llamada.paginas_info[1].firma_manuscrita
    /\ documentos[1].fecha_documento = isoformat(Fecha(2025, 3, 4))
    /\ documentos[1].nit_o_cedula = <<"9", "0", "0", "1", "2", "3", "4", "5", "6">>
    /\ documentos[1].firma_manuscrita
    /\ documentos[1].ocr_conf = 40

---------------------------------------------------------------------------
(* Claims about an item matched by several Documents                       *)

\* the item of the call evaluated on the Document doc alone
EvaluadoSolo(doc) ==
    evaluar_item(ItemLlamado, <<doc>>, llamada.fecha_recepcion, llamada.peticionario_tipo,
                 llamada.inferido, now)

\* the positions of the Documents cited as evidence, in the order cited
PosicionesCitadas ==
    [j \in 1..Len(retorno.archivos.lista) |-> retorno.archivos.lista[j].paginas[1]]

\* the observations of the Documents at the positions ps[j..], each taken alone
RECURSIVE ObservacionesSueltas(_, _)
ObservacionesSueltas(ps, j) ==
    IF j > Len(ps) THEN <<>>
    ELSE EvaluadoSolo(llamada.antes[ps[j]]).observaciones \o ObservacionesSueltas(ps, j + 1)

VariosAceptados == Evaluado /\ ~FueraDeAlcance /\ Cardinality(Suficientes) >= 2

\* C29: when several Documents reach the evidence threshold of an item, all
\* of them are cited as evidence in document order, each adds its
\* observations, and the status of the item is the status the last of them
\* gives alone.
C29_UltimoDocumentoDecide ==
    VariosAceptados =>
        /\ { PosicionesCitadas[j] : j \in 1..Len(PosicionesCitadas) } = Suficientes
        /\ \A j \in 1..(Len(PosicionesCitadas) - 1) : PosicionesCitadas[j] < PosicionesCitadas[j + 1]
        /\ retorno.observaciones = ObservacionesSueltas(PosicionesCitadas, 1)
        /\ retorno.estado = EvaluadoSolo(UltimoAceptado).estado

\* two Documents are accepted and the first alone gives another status than
\* the one returned
C29_Witness ==
    /\ VariosAceptados
    /\ Len(retorno.archivos.lista) = 2
    /\ EvaluadoSolo(llamada.antes[PosicionesCitadas[1]]).estado = "C"
    /\ retorno.estado = "Revision"

---------------------------------------------------------------------------
(* Claims about the issuance date a Document already carries               *)

\* the calendar date written in a stored "YYYY-MM-DD" string
FechaEscrita(fecha_documento) ==
    Fecha(fecha_documento.tok.n[1], fecha_documento.tok.n[2], fecha_documento.tok.n[3])

UnSoloAceptadoConFechaAlmacenada ==
    /\ UnSoloAceptadoConFecha
    /\ UltimoAceptado.fecha_documento.clase = "str"

\* C26: a Document that already carries an issuance date, stored as an ISO
\* string, is validated against exactly that calendar date: the date read
\* back has the day, month and year that were stored, also when the day is
\* 12 or less.
C26_Original ==
    UnSoloAceptadoConFechaAlmacenada =>
        /\ obtener_fecha_date(UltimoAceptado.fecha_documento, now)
               = FechaEscrita(UltimoAceptado.fecha_documento)
        /\ \A o \in DecisionesVigencia :
               o.expedicion = FechaEscrita(UltimoAceptado.fecha_documento)

\* what the code does: the date is read back as written when its day is
\* above 12, and with day and month exchanged otherwise
FechaAlmacenadaLeida ==
    UnSoloAceptadoConFechaAlmacenada =>
        \A o \in DecisionesVigencia :
            LET f == FechaEscrita(UltimoAceptado.fecha_documento)
            IN  o.expedicion = IF f.d <= 12 THEN Fecha(f.y, f.d, f.m) ELSE f

---------------------------------------------------------------------------
(* Claims about the receipt date of generar_checklist                      *)

\* the calendar date the caller supplied
RecepcionSuministrada ==
    IF llamada.fecha_recepcion.clase = "str"
    THEN parse_date(llamada.fecha_recepcion.tok, now).f
    ELSE llamada.fecha_recepcion.f

\* the validity notes of the rows
NotasDeVigencia ==
    UNION { { filas[a].Observaciones[j] : j \in
                { j \in 1..Len(filas[a].Observaciones) :
                    filas[a].Observaciones[j].tag \in {"vigente", "vencido"} } } :
            a \in 1..Len(filas) }

\* C25: generar_checklist falls back to the current date only when the
\* receipt date cannot be parsed: for a parseable date string, a date or a
\* datetime every validity comparison uses the receipt date supplied.
C25_Original ==
    Generado => \A o \in NotasDeVigencia : o.recepcion = RecepcionSuministrada

\* what the code does: the receipt date supplied is used when it is a
\* datetime, the current date for a date and for a date string
RecepcionUsada ==
    Generado =>
        \A o \in NotasDeVigencia :
            o.recepcion = IF llamada.fecha_recepcion.clase = "datetime"
                          THEN RecepcionSuministrada ELSE now


---------------------------------------------------------------------------
(* The numeric pass on year-first triplets                                 *)

\* the text is one triplet written year, month, day that names a date of the
\* calendar
AnioPrimeroLegible ==
    /\ Len(llamada.tripletas) = 1
    /\ ValorDe(llamada.tripletas[1].a) \in 1900..2100
    /\ ValorDe(llamada.tripletas[1].b) \in 1..12
    /\ ValorDe(llamada.tripletas[1].c) \in 1..31
    /\ FechaValida(ValorDe(llamada.tripletas[1].a), ValorDe(llamada.tripletas[1].b),
                   ValorDe(llamada.tripletas[1].c))

\* C24 as stated: the numeric pass reads a token Y-M-D with Y in [1900,2100],
\* M in [1,12] and D in [1,31], such as 2024-05-03, as the date with year Y,
\* month M and day D.
C24_Original ==
    (Extraido /\ AnioPrimeroLegible) =>
        Fecha(ValorDe(llamada.tripletas[1].a), ValorDe(llamada.tripletas[1].b),
              ValorDe(llamada.tripletas[1].c)) \in retorno.numericas

\* what the pass does with such a token: the day group, below 100, is moved
\* into a century before either ordering is tested, so that no date comes out
\* of any pass
AnioPrimeroSinFecha ==
    (Extraido /\ AnioPrimeroLegible) =>
        /\ retorno.numericas = {}
        /\ retorno.fechas = {}
        /\ retorno.fecha = SinFecha

\* '2024-05-03' has been through the extraction
AnioPrimeroExtraido ==
    /\ Extraido
    /\ AnioPrimeroLegible
    /\ llamada.texto = <<"2", "0", "2", "4", "-", "0", "5", "-", "0", "3">>


---------------------------------------------------------------------------
(* The range of the dates extracted                                        *)

\* a date of the calendar whose year is in [1900, 2100]
EnRangoDeAnios(f) == FechaValida(f.y, f.m, f.d) /\ f.y \in 1900..2100

\* C28 as stated: every candidate of every pass, and so every date that
\* extraer_fecha_mejorada returns, is a date of the calendar whose year lies
\* in [1900, 2100].
C28_Original ==
    Extraido =>
        /\ \A f \in Candidatas : EnRangoDeAnios(f)
        /\ retorno.fecha # SinFecha => EnRangoDeAnios(retorno.fecha)

\* every candidate is a date of the calendar, and its year is in range unless
\* it comes from the contextual pass reading a date written with a month name
CandidatasSalvoContextoConNombre ==
    Extraido =>
        /\ \A f \in Candidatas : FechaValida(f.y, f.m, f.d)
        /\ (~llamada.contexto_bancario \/ llamada.texto \notin TextosConNombre)
               => \A f \in Candidatas : EnRangoDeAnios(f)

\* 'fecha 30 dic 9999' read with the banking context: 9999-12-30
ContextoConNombreFueraDeRango ==
    /\ Extraido
    /\ llamada.contexto_bancario
    /\ llamada.texto = <<"f", "e", "c", "h", "a", " ", "3", "0", " ", "d", "i", "c", " ",
                         "9", "9", "9", "9">>
    /\ retorno.fecha = Fecha(9999, 12, 30)


---------------------------------------------------------------------------
(* The two text cleaners applied twice                                     *)

\* file names whose noise words stand between underscores
NombresConGuionBajo ==
    { nuc \o marca \o <<".", "p", "d", "f">> :
        nuc \in NucleosNombre,
        marca \in { <<"_", "a", "n", "e", "x", "o", "s">>,
                    <<"_", "n", "i", "s", "_", "7">>,
                    <<"_", "1", "2", "3", "4", "5", "6", "_", "x">>,
                    <<"_", "r", "a", "d", "i", "c", "a", "d", "o", "_", "x">> } }

\* page texts with the confusions of the OCR that limpiar_texto_fecha mends
TextosOcr ==
    { <<"0", "4", "|", "0", "3", "|", "2", "0", "2", "5">>,
      <<"l", " ", "0", "3", " ", "2", "0", "2", "5">>,
      <<"0", "4", "/", "0", "3", "/", "2", "O", "2", "5">>,
      <<"0", "4", "/", "0", "3", "/", "2", "o", "2", "5">>,
      <<"(", "0", "4", "/", "0", "3", "/", "2", "0", "2", "5", ")">>,
      <<"0", "4", "/", "0", "(", "O", ")", "3", "/", "2", "0", "2", "5">>,
      <<"1", "[", "o", "]", "2">>,
      <<"a", "[", "l", "]", "b">>,
      <<"2", "O", "O", "5">>,
      <<"{", "l", "}", " ", "d", "e", " ", "m", "a", "y", "o">> }

TextosPorLimpiar == NombresInferencia \cup NombresConGuionBajo \cup TextosOcr

TextoInit ==
    /\ catalogos = CatalogosDelModulo
    /\ cal = CalNinguna
    /\ now \in FechasHoy
    /\ documentos = <<>>
    /\ llamada \in [op : {"por_normalizar"}, s : TextosPorLimpiar]
    /\ retorno = RetornoNinguno
    /\ filas = <<>>

\* normalizar_texto(s) and limpiar_texto_fecha(s)
NormalizarTexto ==
    /\ llamada.op = "por_normalizar"
    /\ retorno' = [normalizado |-> normalizar_texto(llamada.s),
                   limpio |-> limpiar_texto_fecha(llamada.s)]
    /\ llamada' = [op |-> "normalizado", s |-> llamada.s]
    /\ UNCHANGED <<cal, now, documentos, filas, catalogos>>

\* the two functions applied to what they returned
NormalizarOtraVez ==
    /\ llamada.op = "normalizado"
    /\ retorno' = [normalizado |-> normalizar_texto(retorno.normalizado),
                   limpio |-> limpiar_texto_fecha(retorno.limpio)]
    /\ llamada' = [op |-> "normalizado_dos_veces", s |-> llamada.s]
    /\ UNCHANGED <<cal, now, documentos, filas, catalogos>>

TextoNext == NormalizarTexto \/ NormalizarOtraVez

SpecTexto == TextoInit /\ [][TextoNext]_vars

DosVeces == llamada.op = "normalizado_dos_veces"

\* C21 as stated: normalizar_texto(normalizar_texto(s)) = normalizar_texto(s)
\* and limpiar_texto_fecha(limpiar_texto_fecha(s)) = limpiar_texto_fecha(s)
\* for every string s.
C21_Original ==
    DosVeces =>
        /\ retorno.normalizado = normalizar_texto(llamada.s)
        /\ retorno.limpio = limpiar_texto_fecha(llamada.s)

\* the second application changes nothing on the file names whose noise
\* words stand between blanks, and on the texts without an "O" in brackets
\* between digits
DosVecesIgualSalvoRuidoOculto ==
    DosVeces =>
        /\ llamada.s \in NombresInferencia => retorno.normalizado = normalizar_texto(llamada.s)
        /\ (~Contiene(llamada.s, <<"(", "O", ")">>) /\ ~Contiene(llamada.s, <<"[", "o", "]">>))
               => retorno.limpio = limpiar_texto_fecha(llamada.s)

\* 'rut_anexos.pdf' is 'rut anexos' after one normalisation and 'rut' after
\* two
NormalizadoDosVecesDistinto ==
    /\ DosVeces
    /\ llamada.s = <<"r", "u", "t", "_", "a", "n", "e", "x", "o", "s", ".", "p", "d", "f">>
    /\ normalizar_texto(llamada.s) = <<"r", "u", "t", " ", "a", "n", "e", "x", "o", "s">>
    /\ retorno.normalizado = <<"r", "u", "t">>

\* '1[o]2' is '1o2' after one cleaning and '102' after two
LimpiadoDosVecesDistinto ==
    /\ DosVeces
    /\ llamada.s = <<"1", "[", "o", "]", "2">>
    /\ limpiar_texto_fecha(llamada.s) = <<"1", "o", "2">>
    /\ retorno.limpio = <<"1", "0", "2">>


---------------------------------------------------------------------------
(* The files of a batch, one by one                                        *)

\* the rows of the report that carry the name of the file, in their order
FilasEnOrden(nombre) ==
    LET DeEste(f) == f.NombreArchivo = nombre
    IN  SelectSeq(filas, DeEste)

\* the rows of the report of a batch made of this file alone
FilasDelArchivoSolo(archivo) ==
    procesar_carpeta(<<archivo>>, llamada.fecha_recepcion_str, llamada.tipo_devolucion,
                     llamada.peticionario_tipo, now).filas

\* C23: the rows a file gets in the report of a batch are the rows it gets
\* when it is the only file of the batch, whatever the other files of the
\* batch are, whatever their order, and whether or not one of them fails.
C23_ArchivosIndependientes ==
    Procesado =>
        \A archivo \in ArchivosDelLote :
            FilasEnOrden(archivo.nombre) = FilasDelArchivoSolo(archivo)

\* a PDF that cannot be rendered comes first and a file named after the RUT
\* after it: the first has its ERROR row, the second the rows of its own
\* checklist, none of them an error
C23_Witness ==
    /\ Procesado
    /\ RecepcionLegible
    /\ Len(llamada.listado) = 3
    /\ llamada.listado[1].nombre = NombreBancaria
    /\ llamada.listado[2].nombre = NombreRut
    /\ llamada.listado[3].nombre = NombreEscaneo
    /\ filas[1].Estado = "ERROR"
    /\ FilasEnOrden(NombreRut) # <<>>
    /\ \A a \in FilasDeNombre(NombreRut) \cup FilasDeNombre(NombreEscaneo) :
           filas[a].Estado # "ERROR"
    /\ FilasEnOrden(NombreEscaneo) = FilasDelArchivoSolo(llamada.listado[3])


---------------------------------------------------------------------------
(* The catalogs                                                            *)

\* C22: the checklist catalogs, the keyword taxonomy and the holiday set are
\* in every reachable state what the module defines them to be: the batch
\* run, which classifies the pages, reads the file names, groups the pages,
\* generates the checklists and evaluates the items, changes none of them.
C22_CatalogosIntactos == catalogos = CatalogosDelModulo

\* a batch has been run whose first file is named after the RUT: its
\* checklist was generated for the inferred item alone, one row, and the
\* catalog of the request still has all its items
C22_Witness ==
    /\ Procesado
    /\ RecepcionLegible
    /\ Len(llamada.listado) >= 2
    /\ llamada.listado[1].nombre = NombreRut
    /\ Cardinality(FilasDeNombre(NombreRut)) = 1
    /\ \A a \in FilasDeNombre(NombreRut) : filas[a].InferredItemIDs.ids # <<>>
    /\ Len(catalogos.CHECKLIST[llamada.tipo_devolucion]) > 1
    /\ catalogos.CHECKLIST[llamada.tipo_devolucion] = CHECKLIST(llamada.tipo_devolucion)


---------------------------------------------------------------------------
(* The spreadsheet cleaner: try_parse_number.  A value the function        *)
(* returns is kept with its run-time type: clase "int" with a sign and the *)
(* decimal digits of its magnitude (a Python int has no width), "float"    *)
(* with the text float() was given, "str" with the text, "None".           *)

\* '\xa0', the no-break space, as one character
NBSP == "nbsp"

\* the white space str.strip() removes
BlancosPython == Espacios \cup {NBSP}

ValorNone == [clase |-> "None", neg |-> FALSE, texto |-> <<>>]
ValorStr(t) == [clase |-> "str", neg |-> FALSE, texto |-> t]
ValorFloat(t) == [clase |-> "float", neg |-> FALSE, texto |-> t]

\* str.strip()
StripBlancos(t) ==
    LET fuera == { i \in 1..Len(t) : t[i] \notin BlancosPython }
        Recortar(a, b) == SubSeq(t, a, b)
    IN  IF fuera = {} THEN <<>>
        ELSE Recortar(Menor(fuera), CHOOSE i \in fuera : \A j \in fuera : j <= i)

\* str.count(c) for a character c
Cuenta(t, c) == Cardinality({ i \in 1..Len(t) : t[i] = c })

\* str.replace(a, b) for characters a and b
ReemplazarCaracter(t, a, b) == [i \in 1..Len(t) |-> IF t[i] = a THEN b ELSE t[i]]

\* str.lstrip(c) for a character c
LstripCaracter(t, c) == SubSeq(t, FinCorrida(t, 1, {c}), Len(t))

\* len(t.split(c)[-1]): the number of characters after the last c
LargoTrasUltimo(t, c) ==
    LET lugares == { i \in 1..Len(t) : t[i] = c }
    IN  IF lugares = {} THEN Len(t)
        ELSE Len(t) - (CHOOSE i \in lugares : \A j \in lugares : j <= i)

\* the normalisation of the decimal separators, s1 to s2
NormalizarSeparadores(s1, cnt_dot, cnt_comma) ==
    IF cnt_dot > 0 /\ cnt_comma > 0
    THEN ReemplazarCaracter(QuitarCaracteres(s1, {"."}), ",", ".")
    ELSE IF cnt_dot > 1 /\ cnt_comma = 0 THEN QuitarCaracteres(s1, {"."})
    ELSE IF cnt_comma > 1 /\ cnt_dot = 0 THEN QuitarCaracteres(s1, {","})
    ELSE IF cnt_dot = 1 /\ cnt_comma = 0
    THEN (IF LargoTrasUltimo(s1, ".") = 3 THEN QuitarCaracteres(s1, {"."}) ELSE s1)
    ELSE IF cnt_comma = 1 /\ cnt_dot = 0
    THEN (IF LargoTrasUltimo(s1, ",") = 3 THEN QuitarCaracteres(s1, {","})
          ELSE ReemplazarCaracter(s1, ",", "."))
    ELSE s1

\* the digits, the points and the minus signs of s2
SoloNumericos(s2) ==
    LET Queda(ch) == ch \in Digitos \cup {".", "-"}
    IN  SelectSeq(s2, Queda)

\* int(clean) does not raise: an optional minus sign and digits
EnteroLegible(clean) ==
    LET d == IF clean # <<>> /\ clean[1] = "-" THEN Tail(clean) ELSE clean
    IN  d # <<>> /\ \A i \in 1..Len(d) : d[i] \in Digitos

\* float(clean) does not raise: an optional minus sign, digits with one
\* point among them, at least one digit
FlotanteLegible(clean) ==
    LET d == IF clean # <<>> /\ clean[1] = "-" THEN Tail(clean) ELSE clean
    IN  /\ Cuenta(d, ".") = 1
        /\ Cuenta(d, "-") = 0
        /\ Len(d) >= 2

\* the digits of a magnitude without its leading zeros
SinCerosIzquierda(d) ==
    LET resto == LstripCaracter(d, "0")
    IN  IF resto = <<>> THEN <<"0">> ELSE resto

\* int(clean) for a clean that int() reads
ValorInt(clean) ==
    LET neg == clean[1] = "-"
        mag == SinCerosIzquierda(IF neg THEN Tail(clean) ELSE clean)
    IN  [clase |-> "int", neg |-> neg /\ mag # <<"0">>, texto |-> mag]

\* the end of try_parse_number, for a clean without a point: more than 15
\* digits are returned as text, without the minus signs
EnteroPuro(clean) ==
    IF Len(LstripCaracter(clean, "-")) > 15
    THEN [value |-> ValorStr(LstripCaracter(clean, "-")), tag |-> "AS_TEXT"]
    ELSE IF EnteroLegible(clean) THEN [value |-> ValorInt(clean), tag |-> "General"]
    ELSE [value |-> ValorStr(clean), tag |-> "AS_TEXT"]

\* len(clean.split('.')[0].lstrip('-'))
LargoAntesDePunto(clean) ==
    LET primero == Menor({ i \in 1..Len(clean) : clean[i] = "." })
    IN  Len(LstripCaracter(SubSeq(clean, 1, primero - 1), "-"))

\* for a clean with a point: the integer part decides between text and float
ConPunto(clean) ==
    IF LargoAntesDePunto(clean) > 15 THEN [value |-> ValorStr(clean), tag |-> "AS_TEXT"]
    ELSE IF FlotanteLegible(clean) THEN [value |-> ValorFloat(clean), tag |-> "General"]
    ELSE [value |-> ValorStr(clean), tag |-> "AS_TEXT"]

NumeroDeLimpio(clean) ==
    IF clean = <<>> \/ clean \in { <<".">>, <<"-">>, <<"-", ".">> }
    THEN [value |-> ValorNone, tag |-> "None"]
    ELSE IF Cuenta(clean, ".") > 0 THEN ConPunto(clean)
    ELSE EnteroPuro(clean)

NumeroDeS1(s1) ==
    NumeroDeLimpio(SoloNumericos(NormalizarSeparadores(s1, Cuenta(s1, "."), Cuenta(s1, ","))))

NumeroDeOrig(orig) ==
    IF orig = <<>> THEN [value |-> ValorNone, tag |-> "None"]
    ELSE NumeroDeS1(LstripCaracter(QuitarCaracteres(orig, {NBSP, " "}), "#"))

\* try_parse_number(s) for a str s: value and tag; tag "None" is the None of
\* (None, None)
try_parse_number(s) == NumeroDeOrig(StripBlancos(s))

---------------------------------------------------------------------------
(* Cells the number parser is run on                                       *)

MaxDigitos == 17

\* n digits: all nines, 1234567890 repeated, a one and zeros, zeros and a
\* seven
Nueves(n) == [i \in 1..n |-> "9"]
Sucesivos(n) == [i \in 1..n |-> <<"1", "2", "3", "4", "5", "6", "7", "8", "9", "0">>[((i - 1) % 10) + 1]]
UnoYCeros(n) == [i \in 1..n |-> IF i = 1 THEN "1" ELSE "0"]
CerosYSiete(n) == [i \in 1..n |-> IF i = n THEN "7" ELSE "0"]

DigitosDeCelda ==
    UNION { { Nueves(n), Sucesivos(n), UnoYCeros(n), CerosYSiete(n) } : n \in 1..MaxDigitos }

SignosDeCelda == { <<>>, <<"-">>, <<"+">> }

\* cells that are not plain integers: empty, blank, words, a '#' prefix,
\* thousands and decimal separators, blanks inside, stray signs
OtrasCeldas ==
    { <<>>, <<" ", " ">>, <<"a", "b", "c">>, <<"#", "1", "2", "3">>,
      <<"1", ".", "2", "3", "4", ",", "5", "6">>,
      <<"1", ".", "2", "3", "4", ".", "5", "6", "7">>,
      <<"1", ",", "2", "3", "4", ",", "5", "6", "7">>,
      <<"1", ".", "2", "3", "4">>, <<"1", ".", "5">>,
      <<"1", ",", "2", "3", "4">>, <<"1", ",", "5">>,
      <<"1", "2", " ", "3", "4", "5">>, <<NBSP, "7", " ">>,
      <<"-">>, <<"1", "-", "2">>, <<"-", "-", "5">>, <<"1", ".", "2", ",", "3", ",", "4">>,
      <<"1", "2", "3", "4", "5", "6", "7", "8", "9", "0", "1", "2", "3", "4", "5", "6", ",", "5">>,
      <<"$", " ", "-", "1", "2", ".", "5", "0">> }

NumeroInit ==
    /\ catalogos = CatalogosDelModulo
    /\ cal = CalNinguna
    /\ now \in FechasHoy
    /\ documentos = <<>>
    /\ llamada \in
           { [op |-> "por_parsear", entero |-> TRUE, signo |-> sg, digitos |-> d, s |-> sg \o d] :
               sg \in SignosDeCelda, d \in DigitosDeCelda }
           \cup { [op |-> "por_parsear", entero |-> FALSE, signo |-> <<>>, digitos |-> <<>>,
                   s |-> t] : t \in OtrasCeldas }
    /\ retorno = RetornoNinguno
    /\ filas = <<>>

ParsearNumero ==
    /\ llamada.op = "por_parsear"
    /\ retorno' = try_parse_number(llamada.s)
    /\ llamada' = [llamada EXCEPT !.op = "try_parse_number"]
    /\ UNCHANGED <<cal, now, documentos, filas, catalogos>>

NumeroNext == ParsearNumero

SpecNumero == NumeroInit /\ [][NumeroNext]_vars

---------------------------------------------------------------------------
(* Claims about the number parser                                          *)

Parseado == llamada.op = "try_parse_number"

CeldaNegativa == llamada.signo = <<"-">>

\* C30 as stated: an optionally signed integer of more than 15 digits comes
\* back with tag AS_TEXT as a text with the sign and the digits of the input,
\* and one of at most 15 digits comes back as the int of the same value with
\* tag General.
C30_Original ==
    (Parseado /\ llamada.entero) =>
        IF Len(llamada.digitos) > 15
        THEN /\ retorno.tag = "AS_TEXT"
             /\ retorno.value = ValorStr((IF CeldaNegativa THEN <<"-">> ELSE <<>>)
                                            \o llamada.digitos)
        ELSE /\ retorno.tag = "General"
             /\ retorno.value = [clase |-> "int",
                                 neg |-> CeldaNegativa
                                           /\ SinCerosIzquierda(llamada.digitos) # <<"0">>,
                                 texto |-> SinCerosIzquierda(llamada.digitos)]

\* what the parser returns for an integer: the int of the same value up to 15
\* digits, and beyond that the digits as text, all of them, without the sign
EnteroLargoSinSigno ==
    (Parseado /\ llamada.entero) =>
        IF Len(llamada.digitos) > 15
        THEN /\ retorno.tag = "AS_TEXT"
             /\ retorno.value = ValorStr(llamada.digitos)
        ELSE /\ retorno.tag = "General"
             /\ retorno.value = [clase |-> "int",
                                 neg |-> CeldaNegativa
                                           /\ SinCerosIzquierda(llamada.digitos) # <<"0">>,
                                 texto |-> SinCerosIzquierda(llamada.digitos)]

\* '-1234567890123456' has come back as the text '1234567890123456'
NegativoLargoParseado ==
    /\ Parseado
    /\ llamada.s = <<"-", "1", "2", "3", "4", "5", "6", "7", "8", "9", "0", "1", "2", "3",
                     "4", "5", "6">>
    /\ retorno = [value |-> ValorStr(Tail(llamada.s)), tag |-> "AS_TEXT"]

=============================================================================
